---- MODULE Spec2Model ----
(***************************************************************************)
(* Model of the CloudFormation stack-parameters action: the document       *)
(* loader (ConfigurationReader), the merge engine (ParameterMerger), the   *)
(* identifier resolver (StackNameGenerator), the correlation id generator  *)
(* (CiBuildIdGenerator) and the orchestrator run().                        *)
(*                                                                         *)
(* A JavaScript string is a sequence of one-character strings, so that     *)
(* length, trimming, regular expressions and substring are computed.       *)
(***************************************************************************)
EXTENDS Integers, Sequences, FiniteSets, TLC

VARIABLES
  call,     \* the operation under test and its arguments (unit specifications)
  ret,      \* the sequence of results the operation has produced so far
  world,    \* what run() reads: inputs, files, branch lookup, random stream
  run,      \* the locals of run(): position and the values computed so far
  outputs,  \* core.setOutput: output name -> value
  failure   \* core.setFailed: the reported failure, or NoFailure

vars == <<call, ret, world, run, outputs, failure>>

(***************************************************************************)
(* Characters and strings                                                  *)
(***************************************************************************)
UpperSeq == <<"A","B","C","D","E","F","G","H","I","J","K","L","M",
              "N","O","P","Q","R","S","T","U","V","W","X","Y","Z">>
LowerSeq == <<"a","b","c","d","e","f","g","h","i","j","k","l","m",
              "n","o","p","q","r","s","t","u","v","w","x","y","z">>
Upper == {UpperSeq[i] : i \in 1..Len(UpperSeq)}
Lower == {LowerSeq[i] : i \in 1..Len(LowerSeq)}
Digit == {"0","1","2","3","4","5","6","7","8","9"}
Hyphen == "-"
\* [a-zA-Z0-9-]
NameChars == Upper \cup Lower \cup Digit \cup {Hyphen}
\* what String.prototype.trim removes
WhiteSpace == {" ", "\t", "\n", "\r"}

\* the string made of n copies of character c
Repeat(c, n) == [i \in 1..n |-> c]

\* String.prototype.toLowerCase on one character
LowerChar(c) ==
  IF c \in Upper THEN LowerSeq[CHOOSE i \in 1..Len(UpperSeq) : UpperSeq[i] = c] ELSE c

toLowerCase(s) == [i \in 1..Len(s) |-> LowerChar(s[i])]

\* the number of characters of set that s starts with
LeadingCount(s, set) ==
  LET others == {i \in 1..Len(s) : s[i] \notin set} IN
  IF others = {} THEN Len(s)
  ELSE (CHOOSE i \in others : \A j \in others : i <= j) - 1

\* the number of characters of set that s ends with
TrailingCount(s, set) ==
  LET others == {i \in 1..Len(s) : s[i] \notin set} IN
  IF others = {} THEN Len(s)
  ELSE Len(s) - (CHOOSE i \in others : \A j \in others : i >= j)

\* s without the characters of set it starts with and ends with
StripBoth(s, set) ==
  IF LeadingCount(s, set) = Len(s) THEN <<>>
  ELSE SubSeq(s, LeadingCount(s, set) + 1, Len(s) - TrailingCount(s, set))

\* String.prototype.trim
trim(s) == StripBoth(s, WhiteSpace)

\* RegExp /^[a-zA-Z0-9-]+$/.test(s)
validNameRegex(s) == s # <<>> /\ \A i \in 1..Len(s) : s[i] \in NameChars

(***************************************************************************)
(* Results of fallible operations: a returned value or a thrown error      *)
(***************************************************************************)
Ok(v) == [ok |-> TRUE, value |-> v]
Err(kind) == [ok |-> FALSE, error |-> kind]

(***************************************************************************)
(* StackNameGenerator.sanitizeBranchName                                   *)
(***************************************************************************)
\* .replace(/[^a-zA-Z0-9-]/g, '-')
ReplaceInvalid(s) == [i \in 1..Len(s) |-> IF s[i] \in NameChars THEN s[i] ELSE Hyphen]

\* .replace(/-+/g, '-') on the characters lo..hi of s: of each run of hyphens
\* only the first is kept
RECURSIVE CollapseRange(_, _, _)
CollapseRange(s, lo, hi) ==
  IF lo > hi THEN <<>>
  ELSE IF lo = hi
  THEN IF s[lo] = Hyphen /\ lo > 1 /\ s[lo - 1] = Hyphen THEN <<>> ELSE <<s[lo]>>
  ELSE CollapseRange(s, lo, (lo + hi) \div 2) \o CollapseRange(s, (lo + hi) \div 2 + 1, hi)

CollapseHyphens(s) == CollapseRange(s, 1, Len(s))

\* .replace(/^-+|-+$/g, '')
StripHyphens(s) == StripBoth(s, {Hyphen})

SanitizeSkipCollapse(branchName) ==
  IF branchName = <<>> THEN Err("BranchNameEmpty")
  ELSE Ok(toLowerCase(StripHyphens(ReplaceInvalid(branchName))))

SanitizeStripFirst(branchName) ==
  IF branchName = <<>> THEN Err("BranchNameEmpty")
  ELSE Ok(toLowerCase(CollapseHyphens(ReplaceInvalid(StripHyphens(branchName)))))

sanitizeBranchName(branchName) ==
  IF branchName = <<>> THEN Err("BranchNameEmpty")
  ELSE Ok(toLowerCase(StripHyphens(CollapseHyphens(ReplaceInvalid(branchName)))))

(***************************************************************************)
(* JavaScript values, as far as the code tells them apart                  *)
(***************************************************************************)
JsString(s) == [t |-> "string", s |-> s]
\* a number is num/den; den = 0 stands for NaN (num = 0) and Infinity (num # 0)
JsNumber(n) == [t |-> "number", num |-> n, den |-> 1]
JsFraction(num, den) == [t |-> "number", num |-> num, den |-> den]
JsNaN == [t |-> "number", num |-> 0, den |-> 0]
JsInfinity == [t |-> "number", num |-> 1, den |-> 0]
JsBoolean(b) == [t |-> "boolean", b |-> b]
JsNull == [t |-> "null"]
JsUndefined == [t |-> "undefined"]

\* !v || typeof v !== 'string' || v.trim() === ''
IsBlankOrNotString(v) == v.t # "string" \/ trim(v.s) = <<>>

(***************************************************************************)
(* StackNameGenerator.getCurrentBranchName                                 *)
(* The outcome of execSync('git rev-parse --abbrev-ref HEAD') is either    *)
(* its standard output or a thrown error with the fields the catch block   *)
(* inspects.                                                               *)
(***************************************************************************)
GitStdout(out) == [t |-> "stdout", out |-> out]
GitThrow(code, signal, killed, status, message) ==
  [t |-> "throw", code |-> code, signal |-> signal, killed |-> killed,
   status |-> status, message |-> message]

HEAD == <<"H","E","A","D">>
MaxBranchNameLength == 100

ClassifyGitErrorStatusFirst(e) ==
  IF e.status = 128 THEN "NotAGitRepository"
  ELSE IF e.status = 129 THEN "GitTooOld"
  ELSE IF e.code = "ENOENT" THEN "GitNotFound"
  ELSE IF e.signal = "SIGTERM" \/ e.killed THEN "GitTimedOut"
  ELSE IF e.message = "Unable to determine current branch name" THEN "BranchUndetermined"
  ELSE IF e.message = "Branch name is too long" THEN "BranchNameTooLong"
  ELSE "GitFailed"

\* the catch block of getCurrentBranchName: first matching rule wins
ClassifyGitError(e) ==
  IF e.code = "ENOENT" THEN "GitNotFound"
  ELSE IF e.signal = "SIGTERM" \/ e.killed THEN "GitTimedOut"
  ELSE IF e.status = 128 THEN "NotAGitRepository"
  ELSE IF e.status = 129 THEN "GitTooOld"
  ELSE IF e.message = "Unable to determine current branch name" THEN "BranchUndetermined"
  ELSE IF e.message = "Branch name is too long" THEN "BranchNameTooLong"
  ELSE "GitFailed"

\* the message of the error the catch block throws, as the pieces of its template
GitDiagnostic(e) ==
  LET kind == ClassifyGitError(e) IN
  IF kind = "GitNotFound"
  THEN <<"Git command not found. Please ensure Git is installed and available in PATH.">>
  ELSE IF kind = "GitTimedOut"
  THEN <<"Git command timed out. The repository may be corrupted or inaccessible.">>
  ELSE IF kind = "NotAGitRepository"
  THEN <<"Not a Git repository or Git repository is corrupted. Please ensure you are running this action in a valid Git repository.">>
  ELSE IF kind = "GitTooOld"
  THEN <<"Invalid Git command or Git version is too old. Please ensure you have a recent version of Git installed.">>
  ELSE IF kind \in {"BranchUndetermined", "BranchNameTooLong"}
  THEN <<e.message>>
  ELSE <<"Failed to determine current branch name: ", e.message,
         ". Please ensure you are in a valid Git repository with at least one commit.">>

BranchLookupAcceptsHead(git) ==
  IF git.t = "stdout"
  THEN LET branchName == trim(git.out) IN
       IF branchName = <<>> THEN Err("BranchUndetermined")
       ELSE IF Len(branchName) > MaxBranchNameLength THEN Err("BranchNameTooLong")
       ELSE Ok(branchName)
  ELSE Err(ClassifyGitError(git))

getCurrentBranchName(git) ==
  IF git.t = "stdout"
  THEN LET branchName == trim(git.out) IN
       IF branchName = <<>> \/ branchName = HEAD THEN Err("BranchUndetermined")
       ELSE IF Len(branchName) > MaxBranchNameLength THEN Err("BranchNameTooLong")
       ELSE Ok(branchName)
  ELSE Err(ClassifyGitError(git))

\* the diagnostics that are one error kind, BranchResolutionFailed, to the resolver
BranchResolutionFailed ==
  {"GitNotFound", "GitTimedOut", "NotAGitRepository", "GitTooOld",
   "BranchUndetermined", "BranchNameTooLong", "GitFailed"}

(***************************************************************************)
(* StackNameGenerator.generateStackName                                    *)
(***************************************************************************)
MaxComponentLength == 50
MaxStackNameLength == 128

ComposeNameSwapped(a, b, c) == b \o <<Hyphen>> \o a \o <<Hyphen>> \o c

\* `${a}-${b}-${c}`
ComposeName(a, b, c) == a \o <<Hyphen>> \o b \o <<Hyphen>> \o c

CheckStackNameLengthTruncating(stackName) ==
  IF Len(stackName) > MaxStackNameLength
  THEN Ok(SubSeq(stackName, 1, MaxStackNameLength)) ELSE Ok(stackName)

\* the final length check of generateStackName
CheckStackNameLength(stackName) ==
  IF Len(stackName) > MaxStackNameLength THEN Err("NameTooLong") ELSE Ok(stackName)

CiBuildStackNameFallback(project, stackPrefix, git) ==
  LET branch == getCurrentBranchName(git)
      name == IF branch.ok THEN branch.value ELSE <<"u","n","k","n","o","w","n">>
      sanitized == sanitizeBranchName(name) IN
  IF ~sanitized.ok THEN sanitized
  ELSE IF sanitized.value = <<>> THEN Err("SanitizationEmpty")
  ELSE Ok(ComposeName(project, stackPrefix, sanitized.value))

\* the build-mode branch: look the branch up, sanitize it, compose
CiBuildStackName(project, stackPrefix, git) ==
  LET branch == getCurrentBranchName(git) IN
  IF ~branch.ok THEN branch
  ELSE LET sanitized == sanitizeBranchName(branch.value) IN
       IF ~sanitized.ok THEN sanitized
       ELSE IF sanitized.value = <<>> THEN Err("SanitizationEmpty")
       ELSE Ok(ComposeName(project, stackPrefix, sanitized.value))

\* the deployment-mode branch: validate the environment, compose
EnvironmentStackName(project, stackPrefix, environment) ==
  IF IsBlankOrNotString(environment) THEN Err("EnvironmentRequired")
  ELSE IF ~validNameRegex(environment.s) THEN Err("EnvironmentInvalidChars")
  ELSE IF Len(environment.s) > MaxComponentLength THEN Err("EnvironmentTooLong")
  ELSE Ok(ComposeName(project, stackPrefix, environment.s))

\* the checks of project, stackPrefix and isCiBuild that come before the branches
CheckNameComponents(project, stackPrefix, isCiBuild) ==
  IF IsBlankOrNotString(project) THEN Err("ProjectRequired")
  ELSE IF IsBlankOrNotString(stackPrefix) THEN Err("StackPrefixRequired")
  ELSE IF isCiBuild.t # "boolean" THEN Err("CiBuildFlagNotBoolean")
  ELSE IF ~validNameRegex(project.s) THEN Err("ProjectInvalidChars")
  ELSE IF ~validNameRegex(stackPrefix.s) THEN Err("StackPrefixInvalidChars")
  ELSE IF Len(project.s) > MaxComponentLength THEN Err("ProjectTooLong")
  ELSE IF Len(stackPrefix.s) > MaxComponentLength THEN Err("StackPrefixTooLong")
  ELSE Ok(isCiBuild)

generateStackName(project, stackPrefix, isCiBuild, environment, git) ==
  LET checked == CheckNameComponents(project, stackPrefix, isCiBuild) IN
  IF ~checked.ok THEN checked
  ELSE LET composed == IF isCiBuild.b
                       THEN CiBuildStackName(project.s, stackPrefix.s, git)
                       ELSE EnvironmentStackName(project.s, stackPrefix.s, environment)
       IN IF ~composed.ok THEN composed ELSE CheckStackNameLength(composed.value)

(***************************************************************************)
(* CiBuildIdGenerator                                                      *)
(* Math.random() returns a value in [0, 1), modelled as the fraction       *)
(* num/den; a call of generateRandomId consumes a stream of such values.   *)
(***************************************************************************)
alphabetCapitalized == <<"A">> \o Tail(LowerSeq)

alphabet == LowerSeq
DefaultIdLength == 8
MinIdLength == 6
MaxIdLength == 10

\* Number.isInteger(v) for a number v
IsInteger(v) == v.den # 0 /\ v.num % v.den = 0

\* Math.floor(Math.random() * alphabet.length)
RandomIndex(r) == (r.num * Len(alphabet)) \div r.den

\* /^[a-z]+$/.test(id)
lowercaseAlphabetRegex(id) == id # <<>> /\ \A i \in 1..Len(id) : id[i] \in Lower

\* validateIdFormat for a string id
validateIdFormat(id) ==
  /\ ~(Len(id) < MinIdLength \/ Len(id) > MaxIdLength)
  /\ lowercaseAlphabetRegex(id)

\* the loop of generateRandomId: one character per draw
BuildId(n, randoms) == [i \in 1..n |-> alphabet[RandomIndex(randoms[i]) + 1]]

\* the parameter default: length = 8 when the argument is undefined
LengthArgument(length) == IF length.t = "undefined" THEN JsNumber(DefaultIdLength) ELSE length

GenerateRandomIdClamping(length, randoms) ==
  LET len == LengthArgument(length) IN
  IF len.t # "number" THEN Err("LengthNotANumber")
  ELSE IF ~IsInteger(len) THEN Err("LengthNotAnInteger")
  ELSE LET n == len.num \div len.den
           m == IF n < MinIdLength THEN MinIdLength
                ELSE IF n > MaxIdLength THEN MaxIdLength ELSE n
       IN Ok(BuildId(m, randoms))

generateRandomId(length, randoms) ==
  LET len == LengthArgument(length) IN
  IF len.t # "number" THEN Err("LengthNotANumber")
  ELSE IF ~IsInteger(len) THEN Err("LengthNotAnInteger")
  ELSE LET n == len.num \div len.den IN
       IF n < MinIdLength \/ n > MaxIdLength THEN Err("LengthOutOfRange")
       ELSE LET result == BuildId(n, randoms) IN
            IF ~validateIdFormat(result) THEN Err("GeneratedIdFailedValidation")
            ELSE Ok(result)

(***************************************************************************)
(* Documents: JSON values                                                  *)
(* A parsed JSON object is a "map": the sequence of its entries [k, v] in  *)
(* insertion order, with pairwise distinct keys.  A value inside a map is  *)
(* a string, an integer, a boolean, null, or a nested object or array,     *)
(* which is kept as its JSON serialization.                                *)
(***************************************************************************)
JsMap(entries) == [t |-> "map", entries |-> entries]
JsObject(json) == [t |-> "object", json |-> json]
JsArray(json) == [t |-> "array", json |-> json]
Entry(k, v) == [k |-> k, v |-> v]

\* !v
IsFalsy(v) ==
  \/ v.t \in {"null", "undefined"}
  \/ v.t = "string" /\ v.s = <<>>
  \/ v.t = "number" /\ v.num = 0
  \/ v.t = "boolean" /\ ~v.b

\* !v || typeof v !== 'object' || Array.isArray(v)
IsNotPlainObject(v) == v.t # "map"

\* Object.keys(m) as a set
Keys(m) == {m[i].k : i \in 1..Len(m)}

\* m[k] for a key of m
Lookup(m, k) == m[CHOOSE i \in 1..Len(m) : m[i].k = k].v

\* the decimal digits of a natural number (at most four digits are needed here)
DigitSeq == <<"0","1","2","3","4","5","6","7","8","9">>
NatToString(n) ==
  LET d(k) == <<DigitSeq[((n \div k) % 10) + 1]>> IN
  IF n < 10 THEN d(1)
  ELSE IF n < 100 THEN d(10) \o d(1)
  ELSE IF n < 1000 THEN d(100) \o d(10) \o d(1)
  ELSE d(1000) \o d(100) \o d(10) \o d(1)

\* typeof value === 'object' ? JSON.stringify(value) : String(value)
StringValueByString(v) ==
  IF v.t = "string" THEN v.s
  ELSE IF v.t = "number"
  THEN IF v.num < 0 THEN <<"-">> \o NatToString(0 - v.num) ELSE NatToString(v.num)
  ELSE IF v.t = "boolean"
  THEN IF v.b THEN <<"t","r","u","e">> ELSE <<"f","a","l","s","e">>
  ELSE IF v.t = "array" THEN <<>>
  ELSE <<"[","o","b","j","e","c","t"," ","O","b","j","e","c","t","]">>

StringValue(v) ==
  IF v.t = "string" THEN v.s
  ELSE IF v.t = "number"
  THEN IF v.num < 0 THEN <<"-">> \o NatToString(0 - v.num) ELSE NatToString(v.num)
  ELSE IF v.t = "boolean"
  THEN IF v.b THEN <<"t","r","u","e">> ELSE <<"f","a","l","s","e">>
  ELSE v.json

\* the first error among the results of the loop body for the entries, in order
FirstProblem(problems) ==
  LET bad == {i \in 1..Len(problems) : problems[i] # "none"} IN
  IF bad = {} THEN "none"
  ELSE problems[CHOOSE i \in bad : \A j \in bad : i <= j]

(***************************************************************************)
(* ParameterMerger.validateParameterObject / validateTagsObject            *)
(***************************************************************************)
MaxParameters == 200
MaxParameterNameLength == 255
MaxParameterValueLength == 4096
MaxTags == 50
MaxTagNameLength == 128
MaxTagValueLength == 256

\* /^[a-zA-Z][a-zA-Z0-9]*$/.test(key)
parameterNameRegex(key) ==
  /\ key # <<>>
  /\ key[1] \in Upper \cup Lower
  /\ \A i \in 1..Len(key) : key[i] \in Upper \cup Lower \cup Digit

ParameterProblemOffByOne(e) ==
  IF trim(e.k) = <<>> THEN "InvalidParameterName"
  ELSE IF Len(e.k) > MaxParameterNameLength THEN "ParameterNameTooLong"
  ELSE IF ~parameterNameRegex(e.k) THEN "InvalidParameterNameChars"
  ELSE IF e.v.t \in {"null", "undefined"} THEN "NullParameterValue"
  ELSE IF Len(StringValue(e.v)) > MaxParameterValueLength + 1 THEN "ParameterValueTooLong"
  ELSE "none"

\* the checks of one parameter, in the order of the loop body
ParameterProblem(e) ==
  IF trim(e.k) = <<>> THEN "InvalidParameterName"
  ELSE IF Len(e.k) > MaxParameterNameLength THEN "ParameterNameTooLong"
  ELSE IF ~parameterNameRegex(e.k) THEN "InvalidParameterNameChars"
  ELSE IF e.v.t \in {"null", "undefined"} THEN "NullParameterValue"
  ELSE IF Len(StringValue(e.v)) > MaxParameterValueLength THEN "ParameterValueTooLong"
  ELSE "none"

validateParameterObject(params) ==
  IF IsNotPlainObject(params) THEN Err("ParametersNotAnObject")
  ELSE IF Len(params.entries) > MaxParameters THEN Err("TooManyParameters")
  ELSE LET problem == FirstProblem([i \in 1..Len(params.entries) |->
                                      ParameterProblem(params.entries[i])])
       IN IF problem # "none" THEN Err(problem) ELSE Ok(params)

\* the checks of one tag, in the order of the loop body
TagProblem(e) ==
  IF trim(e.k) = <<>> THEN "InvalidTagName"
  ELSE IF Len(e.k) > MaxTagNameLength THEN "TagNameTooLong"
  ELSE IF e.v.t \in {"null", "undefined"} THEN "NullTagValue"
  ELSE IF Len(StringValue(e.v)) > MaxTagValueLength THEN "TagValueTooLong"
  ELSE "none"

ValidateTagsObjectStrict(tags) ==
  IF IsNotPlainObject(tags) THEN Err("TagsNotAnObject")
  ELSE IF Len(tags.entries) >= MaxTags THEN Err("TooManyTags")
  ELSE LET problem == FirstProblem([i \in 1..Len(tags.entries) |-> TagProblem(tags.entries[i])])
       IN IF problem # "none" THEN Err(problem) ELSE Ok(tags)

validateTagsObject(tags) ==
  IF IsNotPlainObject(tags) THEN Err("TagsNotAnObject")
  ELSE IF Len(tags.entries) > MaxTags THEN Err("TooManyTags")
  ELSE LET problem == FirstProblem([i \in 1..Len(tags.entries) |-> TagProblem(tags.entries[i])])
       IN IF problem # "none" THEN Err(problem) ELSE Ok(tags)

(***************************************************************************)
(* ParameterMerger.mergeParameters                                         *)
(***************************************************************************)
\* { ...a } : a new object with the entries of a
Copy(a) == [i \in 1..Len(a) |-> a[i]]

SpreadKeepingTruthy(a, b) ==
  [i \in 1..Len(a) |->
     IF a[i].k \in Keys(b) /\ ~IsFalsy(Lookup(b, a[i].k))
     THEN Entry(a[i].k, Lookup(b, a[i].k)) ELSE a[i]]
    \o SelectSeq(b, LAMBDA e : e.k \notin Keys(a))

\* { ...a, ...b } : a's keys keep their place and take b's value where b has the
\* key; b's other entries follow
Spread(a, b) ==
  [i \in 1..Len(a) |->
     IF a[i].k \in Keys(b) THEN Entry(a[i].k, Lookup(b, a[i].k)) ELSE a[i]]
    \o SelectSeq(b, LAMBDA e : e.k \notin Keys(a))

mergeParameters(defaultParams, envParams) ==
  IF IsNotPlainObject(defaultParams) THEN Err("DefaultParametersNotAnObject")
  ELSE IF envParams.t \notin {"null", "undefined"} /\ IsNotPlainObject(envParams)
  THEN Err("EnvironmentParametersNotAnObject")
  ELSE IF envParams.t \in {"null", "undefined"} THEN Ok(JsMap(Copy(defaultParams.entries)))
  ELSE IF ~validateParameterObject(defaultParams).ok THEN validateParameterObject(defaultParams)
  ELSE IF ~validateParameterObject(envParams).ok THEN validateParameterObject(envParams)
  ELSE Ok(JsMap(Spread(defaultParams.entries, envParams.entries)))

(***************************************************************************)
(* ParameterMerger.formatForCloudFormation / formatTagsForCloudFormation   *)
(***************************************************************************)
formatForCloudFormation(mergedParams) ==
  IF IsNotPlainObject(mergedParams) THEN Err("MergedParametersNotAnObject")
  ELSE IF ~validateParameterObject(mergedParams).ok THEN validateParameterObject(mergedParams)
  ELSE Ok([i \in 1..Len(mergedParams.entries) |->
             [ParameterName |-> mergedParams.entries[i].k,
              ParameterValue |-> StringValue(mergedParams.entries[i].v)]])

formatTagsForCloudFormation(mergedTags) ==
  IF IsNotPlainObject(mergedTags) THEN Err("MergedTagsNotAnObject")
  ELSE IF ~validateTagsObject(mergedTags).ok THEN validateTagsObject(mergedTags)
  ELSE Ok([i \in 1..Len(mergedTags.entries) |->
             [Key |-> mergedTags.entries[i].k,
              Value |-> StringValue(mergedTags.entries[i].v)]])

(***************************************************************************)
(* The file system as the readers see it                                   *)
(* A path below the configuration folder is [dir, name]: name.json in the  *)
(* subfolder dir ("" for the folder itself).  A file system maps the paths *)
(* that exist to what fs.stat and fs.readFile find there; text that is     *)
(* valid JSON is given by the value JSON.parse returns for it.             *)
(***************************************************************************)
Path(dir, name) == [dir |-> dir, name |-> name]
Directory == [kind |-> "directory"]
Denied == [kind |-> "denied"]
TextFile(text) == [kind |-> "file", json |-> FALSE, text |-> text]
JsonFile(value) == [kind |-> "file", json |-> TRUE, value |-> value]
Missing == [kind |-> "missing"]

FileAt(fs, path) == IF path \in DOMAIN fs THEN fs[path] ELSE Missing

\* the try block shared by the five readers: stat, isFile, readFile, the empty
\* check, JSON.parse and the object check
LoadDocument(file) ==
  IF file.kind = "missing" THEN Err("NotFound")
  ELSE IF file.kind = "denied" THEN Err("PermissionDenied")
  ELSE IF file.kind # "file" THEN Err("NotAFile")
  ELSE IF ~file.json /\ trim(file.text) = <<>> THEN Err("Empty")
  ELSE IF ~file.json THEN Err("InvalidSyntax")
  ELSE IF IsFalsy(file.value) \/ IsNotPlainObject(file.value) THEN Err("NotAnObject")
  ELSE Ok(file.value)

\* !folderPath || typeof folderPath !== 'string'
FolderPathInvalid(folderPath) == folderPath.t # "string" \/ folderPath.s = <<>>

\* a reader's result together with the paths it handed to fs.stat
Accessing(result, paths) == result @@ [accessed |-> paths]

(***************************************************************************)
(* ConfigurationReader                                                     *)
(***************************************************************************)
CloudFormationJson == <<"c","l","o","u","d","f","o","r","m","a","t","i","o","n">>
DefaultJson == <<"d","e","f","a","u","l","t">>
Project == <<"p","r","o","j","e","c","t">>
Template == <<"t","e","m","p","l","a","t","e">>
StackPrefix == <<"s","t","a","c","k","-","p","r","e","f","i","x">>
requiredFields == <<Project, Template, StackPrefix>>

\* !(field in data) || data[field] === null || data[field] === undefined || data[field] === ''
FieldMissing(data, field) ==
  \/ field \notin Keys(data.entries)
  \/ Lookup(data.entries, field).t \in {"null", "undefined"}
  \/ Lookup(data.entries, field) = JsString(<<>>)

ValidateJsonStructureLastFirst(data, fields) ==
  LET missing == {i \in 1..Len(fields) : FieldMissing(data, fields[i])} IN
  IF missing = {} THEN Ok(data)
  ELSE [ok |-> FALSE, error |-> "MissingField",
        field |-> fields[CHOOSE i \in missing : \A j \in missing : i >= j]]

\* validateJsonStructure: the first required field that is missing is reported
validateJsonStructure(data, fields) ==
  LET missing == {i \in 1..Len(fields) : FieldMissing(data, fields[i])} IN
  IF missing = {} THEN Ok(data)
  ELSE [ok |-> FALSE, error |-> "MissingField",
        field |-> fields[CHOOSE i \in missing : \A j \in missing : i <= j]]

readCloudFormationConfig(folderPath, fs) ==
  IF FolderPathInvalid(folderPath) THEN Accessing(Err("FolderPathInvalid"), {})
  ELSE LET configPath == Path("", CloudFormationJson)
           config == LoadDocument(FileAt(fs, configPath))
       IN Accessing(IF ~config.ok THEN config
                    ELSE validateJsonStructure(config.value, requiredFields),
                    {configPath})

ReadDefaultParametersLenient(folderPath, fs) ==
  IF FolderPathInvalid(folderPath) THEN Accessing(Err("FolderPathInvalid"), {})
  ELSE LET defaultParamsPath == Path("params", DefaultJson)
           params == LoadDocument(FileAt(fs, defaultParamsPath))
       IN Accessing(IF ~params.ok /\ params.error = "NotFound" THEN Ok(JsMap(<<>>)) ELSE params,
                    {defaultParamsPath})

readDefaultParameters(folderPath, fs) ==
  IF FolderPathInvalid(folderPath) THEN Accessing(Err("FolderPathInvalid"), {})
  ELSE LET defaultParamsPath == Path("params", DefaultJson) IN
       Accessing(LoadDocument(FileAt(fs, defaultParamsPath)), {defaultParamsPath})

ReadEnvironmentParametersLenient(folderPath, environment, fs) ==
  IF FolderPathInvalid(folderPath) THEN Accessing(Err("FolderPathInvalid"), {})
  ELSE IF IsBlankOrNotString(environment) THEN Accessing(Ok(JsNull), {})
  ELSE LET envParamsPath == Path("params", environment.s)
           params == LoadDocument(FileAt(fs, envParamsPath))
       IN Accessing(IF ~params.ok /\ params.error \in {"NotFound", "Empty", "InvalidSyntax"}
                    THEN Ok(JsNull) ELSE params,
                    {envParamsPath})

\* a missing file (ENOENT) gives null; every other failure is thrown
readEnvironmentParameters(folderPath, environment, fs) ==
  IF FolderPathInvalid(folderPath) THEN Accessing(Err("FolderPathInvalid"), {})
  ELSE IF IsBlankOrNotString(environment) THEN Accessing(Ok(JsNull), {})
  ELSE LET envParamsPath == Path("params", environment.s)
           params == LoadDocument(FileAt(fs, envParamsPath))
       IN Accessing(IF ~params.ok /\ params.error = "NotFound" THEN Ok(JsNull) ELSE params,
                    {envParamsPath})

ReadDefaultTagsStrict(folderPath, fs) ==
  IF FolderPathInvalid(folderPath) THEN Accessing(Err("FolderPathInvalid"), {})
  ELSE LET defaultTagsPath == Path("tags", DefaultJson) IN
       Accessing(LoadDocument(FileAt(fs, defaultTagsPath)), {defaultTagsPath})

\* a missing file (ENOENT) gives the empty object
readDefaultTags(folderPath, fs) ==
  IF FolderPathInvalid(folderPath) THEN Accessing(Err("FolderPathInvalid"), {})
  ELSE LET defaultTagsPath == Path("tags", DefaultJson)
           tags == LoadDocument(FileAt(fs, defaultTagsPath))
       IN Accessing(IF ~tags.ok /\ tags.error = "NotFound" THEN Ok(JsMap(<<>>)) ELSE tags,
                    {defaultTagsPath})

\* a missing file (ENOENT) gives null; every other failure is thrown
readEnvironmentTags(folderPath, environment, fs) ==
  IF FolderPathInvalid(folderPath) THEN Accessing(Err("FolderPathInvalid"), {})
  ELSE IF IsBlankOrNotString(environment) THEN Accessing(Ok(JsNull), {})
  ELSE LET envTagsPath == Path("tags", environment.s)
           tags == LoadDocument(FileAt(fs, envTagsPath))
       IN Accessing(IF ~tags.ok /\ tags.error = "NotFound" THEN Ok(JsNull) ELSE tags,
                    {envTagsPath})

(***************************************************************************)
(* main.js: the inputs of the action and their validation                  *)
(***************************************************************************)
Cfn == <<"c","f","n">>
True == <<"t","r","u","e">>
False == <<"f","a","l","s","e">>
Unknown == <<"u","n","k","n","o","w","n">>
MaxFolderLength == 255
MaxEnvironmentInputLength == 100

\* a || b
OrElse(a, b) == IF IsFalsy(a) THEN b ELSE a

\* String.prototype.includes and startsWith
includes(s, part) ==
  \E i \in 1..(Len(s) - Len(part) + 1) : SubSeq(s, i, i + Len(part) - 1) = part
startsWith(s, part) == Len(s) >= Len(part) /\ SubSeq(s, 1, Len(part)) = part

\* /^[a-zA-Z0-9_-]+$/.test(s)
environmentNameRegex(s) == s # <<>> /\ \A i \in 1..Len(s) : s[i] \in NameChars \cup {"_"}

parseBooleanInput(input) ==
  IF IsFalsy(input) THEN Ok(JsBoolean(FALSE))
  ELSE LET normalizedInput == trim(toLowerCase(input.s)) IN
       IF normalizedInput = True THEN Ok(JsBoolean(TRUE))
       ELSE IF normalizedInput = False THEN Ok(JsBoolean(FALSE))
       ELSE Err("InvalidBoolean")

\* returns whether the warning about an ignored environment was issued
validateInputs(folder, isCiBuild, environment) ==
  IF IsBlankOrNotString(folder) THEN Err("FolderEmpty")
  ELSE IF \/ includes(folder.s, <<".",".">>)
          \/ includes(folder.s, <<"~">>)
          \/ startsWith(folder.s, <<"/">>) THEN Err("FolderUnsafe")
  ELSE IF Len(folder.s) > MaxFolderLength THEN Err("FolderTooLong")
  ELSE IF ~isCiBuild.b /\ IsBlankOrNotString(environment) THEN Err("EnvironmentInputRequired")
  ELSE IF ~IsBlankOrNotString(environment)
          /\ Len(trim(environment.s)) > MaxEnvironmentInputLength
  THEN Err("EnvironmentInputTooLong")
  ELSE IF ~IsBlankOrNotString(environment) /\ ~environmentNameRegex(trim(environment.s))
  THEN Err("EnvironmentInputInvalidChars")
  ELSE Ok(JsBoolean(isCiBuild.b /\ ~IsBlankOrNotString(environment)))

(***************************************************************************)
(* main.js: what run() adds to the merged maps and to the stack name       *)
(***************************************************************************)
CiBuildIdKey == <<"C","i","B","u","i","l","d","I","d">>
GitCommit == <<"G","i","t","C","o","m","m","i","t">>
GitLastModifiedBy == <<"G","i","t","L","a","s","t","M","o","d","i","f","i","e","d","B","y">>
GitLastModifiedAt == <<"G","i","t","L","a","s","t","M","o","d","i","f","i","e","d","A","t">>
GitFile == <<"G","i","t","F","i","l","e">>
GitOrg == <<"G","i","t","O","r","g">>
GitRepo == <<"G","i","t","R","e","p","o">>
ShortCommitLength == 8
TrimmedNameLength == 128

\* object[k] = v : an own key keeps its place, a new key goes last
SetProperty(m, k, v) ==
  IF k \in Keys(m) THEN [i \in 1..Len(m) |-> IF m[i].k = k THEN Entry(k, v) ELSE m[i]]
  ELSE Append(m, Entry(k, v))

\* s.split(sep) for a one-character separator
split(s, sep) ==
  LET at == {i \in 1..Len(s) : s[i] = sep}
      cut(n) == IF n = 0 THEN 0
                ELSE IF n > Cardinality(at) THEN Len(s) + 1
                ELSE CHOOSE i \in at : Cardinality({j \in at : j < i}) = n - 1
  IN [n \in 1..(Cardinality(at) + 1) |-> SubSeq(s, cut(n - 1) + 1, cut(n) - 1)]

\* s.substring(0, n)
substring(s, n) == SubSeq(s, 1, IF Len(s) < n THEN Len(s) ELSE n)

AddCiBuildIdUnlessDefined(mergedParams, isCiBuild, ciBuildId) ==
  IF isCiBuild.b /\ ciBuildId # <<>> /\ CiBuildIdKey \notin Keys(mergedParams.entries)
  THEN JsMap(SetProperty(mergedParams.entries, CiBuildIdKey, JsString(<<Hyphen>> \o ciBuildId)))
  ELSE mergedParams

\* mergedParams.CiBuildId = `-${ciBuildId}` when this is a CI build with an id
AddCiBuildId(mergedParams, isCiBuild, ciBuildId) ==
  IF isCiBuild.b /\ ciBuildId # <<>>
  THEN JsMap(SetProperty(mergedParams.entries, CiBuildIdKey, JsString(<<Hyphen>> \o ciBuildId)))
  ELSE mergedParams

AddGitHubTagsUnlessDefined(mergedTags, env, now) ==
  LET gitCommit == OrElse(env.GITHUB_SHA, JsString(Unknown)).s
      gitActor == OrElse(env.GITHUB_ACTOR, JsString(Unknown)).s
      gitWorkflow == OrElse(env.GITHUB_WORKFLOW, JsString(Unknown)).s
      gitRepository == OrElse(env.GITHUB_REPOSITORY, JsString(Unknown)).s
      pieces == split(gitRepository, "/")
      gitOrg == JsString(pieces[1])
      gitRepo == IF Len(pieces) >= 2 THEN JsString(pieces[2]) ELSE JsUndefined
      set(m, k, v) == IF k \in Keys(m) THEN m ELSE SetProperty(m, k, v)
      t1 == set(mergedTags.entries, GitCommit,
                JsString(substring(gitCommit, ShortCommitLength)))
      t2 == set(t1, GitLastModifiedBy, JsString(gitActor))
      t3 == set(t2, GitLastModifiedAt, JsString(now))
      t4 == set(t3, GitFile, JsString(gitWorkflow))
      t5 == set(t4, GitOrg, OrElse(gitOrg, JsString(Unknown)))
      t6 == set(t5, GitRepo, OrElse(gitRepo, JsString(Unknown)))
  IN JsMap(t6)

\* the six GitHub metadata tags, set in this order
AddGitHubTags(mergedTags, env, now) ==
  LET gitCommit == OrElse(env.GITHUB_SHA, JsString(Unknown)).s
      gitActor == OrElse(env.GITHUB_ACTOR, JsString(Unknown)).s
      gitWorkflow == OrElse(env.GITHUB_WORKFLOW, JsString(Unknown)).s
      gitRepository == OrElse(env.GITHUB_REPOSITORY, JsString(Unknown)).s
      pieces == split(gitRepository, "/")
      gitOrg == JsString(pieces[1])
      gitRepo == IF Len(pieces) >= 2 THEN JsString(pieces[2]) ELSE JsUndefined
      t1 == SetProperty(mergedTags.entries, GitCommit,
                        JsString(substring(gitCommit, ShortCommitLength)))
      t2 == SetProperty(t1, GitLastModifiedBy, JsString(gitActor))
      t3 == SetProperty(t2, GitLastModifiedAt, JsString(now))
      t4 == SetProperty(t3, GitFile, JsString(gitWorkflow))
      t5 == SetProperty(t4, GitOrg, OrElse(gitOrg, JsString(Unknown)))
      t6 == SetProperty(t5, GitRepo, OrElse(gitRepo, JsString(Unknown)))
  IN JsMap(t6)

AppendCiBuildIdUncut(stackName, isCiBuild, ciBuildId) ==
  IF isCiBuild.b /\ ciBuildId # <<>>
  THEN stackName \o <<Hyphen>> \o ciBuildId
  ELSE stackName

\* stackName = `${stackName}-${ciBuildId}`, cut to 128 characters
AppendCiBuildId(stackName, isCiBuild, ciBuildId) ==
  IF isCiBuild.b /\ ciBuildId # <<>>
  THEN substring(stackName \o <<Hyphen>> \o ciBuildId, TrimmedNameLength)
  ELSE stackName

(***************************************************************************)
(* JSON.stringify of the formatted lists                                   *)
(***************************************************************************)
EscapeChar(c) ==
  IF c = "\"" THEN <<"\\", "\"">>
  ELSE IF c = "\\" THEN <<"\\", "\\">>
  ELSE IF c = "\n" THEN <<"\\", "n">>
  ELSE IF c = "\t" THEN <<"\\", "t">>
  ELSE IF c = "\r" THEN <<"\\", "r">>
  ELSE <<c>>

\* the concatenation of pieces[lo..hi] with sep between them
RECURSIVE JoinRange(_, _, _, _)
JoinRange(pieces, sep, lo, hi) ==
  IF lo > hi THEN <<>>
  ELSE IF lo = hi THEN pieces[lo]
  ELSE LET mid == (lo + hi) \div 2 IN
       JoinRange(pieces, sep, lo, mid) \o sep \o JoinRange(pieces, sep, mid + 1, hi)

Join(pieces, sep) == JoinRange(pieces, sep, 1, Len(pieces))

JsonString(s) ==
  <<"\"">> \o Join([i \in 1..Len(s) |-> EscapeChar(s[i])], <<>>) \o <<"\"">>

JsonMember(name, value) == JsonString(name) \o <<":">> \o JsonString(value)

ParameterNameKey == <<"P","a","r","a","m","e","t","e","r","N","a","m","e">>
ParameterValueKey == <<"P","a","r","a","m","e","t","e","r","V","a","l","u","e">>
KeyKey == <<"K","e","y">>
ValueKey == <<"V","a","l","u","e">>

\* JSON.stringify(formattedParams)
StringifyParameters(formattedParams) ==
  <<"[">>
    \o Join([i \in 1..Len(formattedParams) |->
               <<"{">> \o JsonMember(ParameterNameKey, formattedParams[i].ParameterName)
                 \o <<",">> \o JsonMember(ParameterValueKey, formattedParams[i].ParameterValue)
                 \o <<"}">>], <<",">>)
    \o <<"]">>

\* JSON.stringify(formattedTags)
StringifyTags(formattedTags) ==
  <<"[">>
    \o Join([i \in 1..Len(formattedTags) |->
               <<"{">> \o JsonMember(KeyKey, formattedTags[i].Key)
                 \o <<",">> \o JsonMember(ValueKey, formattedTags[i].Value)
                 \o <<"}">>], <<",">>)
    \o <<"]">>

(***************************************************************************)
(* main.js: run().  The locals of run are the fields of the variable run;  *)
(* reads, lookups and ids record the paths given to fs.stat, the calls of  *)
(* git and the calls of generateRandomId; failedAt is the statement that   *)
(* threw.                                                                  *)
(***************************************************************************)
RunStart ==
  [pc |-> "getInputs",
   folder |-> JsUndefined, ciBuildInput |-> JsUndefined, environment |-> JsUndefined,
   isCiBuild |-> JsUndefined, config |-> JsUndefined,
   defaultParams |-> JsUndefined, envParams |-> JsUndefined,
   defaultTags |-> JsUndefined, envTags |-> JsUndefined,
   ciBuildId |-> <<>>, formattedParams |-> <<>>, formattedTags |-> <<>>,
   mergedParams |-> JsUndefined, mergedTags |-> JsUndefined,
   stackName |-> <<>>,
   reads |-> <<>>, lookups |-> 0, ids |-> 0, warnings |-> 0, failedAt |-> ""]

NoFailure == [t |-> "none"]

\* core.setFailed(`Action failed: ${error.message}`)
setFailed(error) == [t |-> "failed", error |-> error]

\* the paths a reader gave to fs.stat, as a sequence
Stats(r) == IF r.accessed = {} THEN <<>> ELSE <<CHOOSE q \in r.accessed : TRUE>>

Output(name, value) == [name |-> name, value |-> value]

OutputsOfThree(r) ==
  << Output("parameters", StringifyParameters(r.formattedParams)),
     Output("stack-name", r.stackName),
     Output("template", StringValue(Lookup(r.config.entries, Template))) >>

\* the calls of core.setOutput at the end of run, in their order
OutputsOf(r) ==
  << Output("parameters", StringifyParameters(r.formattedParams)),
     Output("stack-name", r.stackName),
     Output("template", StringValue(Lookup(r.config.entries, Template))),
     Output("tags", StringifyTags(r.formattedTags)) >>

GetInputs ==
  /\ run.pc = "getInputs"
  /\ run' = [run EXCEPT !.pc = "parseBooleanInput",
                        !.folder = OrElse(world.env.INPUT_CFN_DIRECTORY, JsString(Cfn)),
                        !.ciBuildInput = OrElse(world.env.INPUT_CI_BUILD, JsString(False)),
                        !.environment = OrElse(world.env.INPUT_ENVIRONMENT, JsString(<<>>))]
  /\ UNCHANGED <<call, ret, world, outputs, failure>>

ParseBooleanInput ==
  /\ run.pc = "parseBooleanInput"
  /\ LET r == parseBooleanInput(run.ciBuildInput) IN
     IF r.ok
     THEN /\ run' = [run EXCEPT !.pc = "validateInputs", !.isCiBuild = r.value]
          /\ UNCHANGED failure
     ELSE /\ run' = [run EXCEPT !.pc = "failed", !.failedAt = run.pc]
          /\ failure' = setFailed(r.error)
  /\ UNCHANGED <<call, ret, world, outputs>>

ValidateInputs ==
  /\ run.pc = "validateInputs"
  /\ LET r == validateInputs(run.folder, run.isCiBuild, run.environment) IN
     IF r.ok
     THEN /\ run' = [run EXCEPT !.pc = "readCloudFormationConfig",
                                !.warnings = IF r.value.b THEN @ + 1 ELSE @]
          /\ UNCHANGED failure
     ELSE /\ run' = [run EXCEPT !.pc = "failed", !.failedAt = run.pc]
          /\ failure' = setFailed(r.error)
  /\ UNCHANGED <<call, ret, world, outputs>>

LoadConfig ==
  /\ run.pc = "readCloudFormationConfig"
  /\ LET r == readCloudFormationConfig(run.folder, world.fs) IN
     IF r.ok
     THEN /\ run' = [run EXCEPT !.pc = "readDefaultParameters", !.config = r.value,
                                !.reads = @ \o Stats(r)]
          /\ UNCHANGED failure
     ELSE /\ run' = [run EXCEPT !.pc = "failed", !.failedAt = run.pc, !.reads = @ \o Stats(r)]
          /\ failure' = setFailed(r.error)
  /\ UNCHANGED <<call, ret, world, outputs>>

LoadDefaultParams ==
  /\ run.pc = "readDefaultParameters"
  /\ LET r == readDefaultParameters(run.folder, world.fs) IN
     IF r.ok
     THEN /\ run' = [run EXCEPT !.pc = "readEnvironmentParameters", !.defaultParams = r.value,
                                !.reads = @ \o Stats(r)]
          /\ UNCHANGED failure
     ELSE /\ run' = [run EXCEPT !.pc = "failed", !.failedAt = run.pc, !.reads = @ \o Stats(r)]
          /\ failure' = setFailed(r.error)
  /\ UNCHANGED <<call, ret, world, outputs>>

LoadEnvParams ==
  /\ run.pc = "readEnvironmentParameters"
  /\ LET r == readEnvironmentParameters(run.folder, run.environment, world.fs) IN
     IF r.ok
     THEN /\ run' = [run EXCEPT !.pc = "readDefaultTags", !.envParams = r.value,
                                !.reads = @ \o Stats(r)]
          /\ UNCHANGED failure
     ELSE /\ run' = [run EXCEPT !.pc = "failed", !.failedAt = run.pc, !.reads = @ \o Stats(r)]
          /\ failure' = setFailed(r.error)
  /\ UNCHANGED <<call, ret, world, outputs>>

LoadDefaultTags ==
  /\ run.pc = "readDefaultTags"
  /\ LET r == readDefaultTags(run.folder, world.fs) IN
     IF r.ok
     THEN /\ run' = [run EXCEPT !.pc = "readEnvironmentTags", !.defaultTags = r.value,
                                !.reads = @ \o Stats(r)]
          /\ UNCHANGED failure
     ELSE /\ run' = [run EXCEPT !.pc = "failed", !.failedAt = run.pc, !.reads = @ \o Stats(r)]
          /\ failure' = setFailed(r.error)
  /\ UNCHANGED <<call, ret, world, outputs>>

LoadEnvTags ==
  /\ run.pc = "readEnvironmentTags"
  /\ LET r == readEnvironmentTags(run.folder, run.environment, world.fs) IN
     IF r.ok
     THEN /\ run' = [run EXCEPT !.pc = "generateRandomId", !.envTags = r.value,
                                !.reads = @ \o Stats(r)]
          /\ UNCHANGED failure
     ELSE /\ run' = [run EXCEPT !.pc = "failed", !.failedAt = run.pc, !.reads = @ \o Stats(r)]
          /\ failure' = setFailed(r.error)
  /\ UNCHANGED <<call, ret, world, outputs>>

\* ciBuildId = isCiBuild ? ciBuildIdGenerator.generateRandomId() : ''
MakeCiBuildId ==
  /\ run.pc = "generateRandomId"
  /\ IF run.isCiBuild.b
     THEN LET r == generateRandomId(JsUndefined, world.randoms) IN
          IF r.ok
          THEN /\ run' = [run EXCEPT !.pc = "mergeParameters", !.ciBuildId = r.value,
                                     !.ids = @ + 1]
               /\ UNCHANGED failure
          ELSE /\ run' = [run EXCEPT !.pc = "failed", !.failedAt = run.pc, !.ids = @ + 1]
               /\ failure' = setFailed(r.error)
     ELSE /\ run' = [run EXCEPT !.pc = "mergeParameters", !.ciBuildId = <<>>]
          /\ UNCHANGED failure
  /\ UNCHANGED <<call, ret, world, outputs>>

\* merge the parameters, add CiBuildId, format
MergeAndFormatParams ==
  /\ run.pc = "mergeParameters"
  /\ LET merged == mergeParameters(run.defaultParams, run.envParams)
         mergedParams == AddCiBuildId(merged.value, run.isCiBuild, run.ciBuildId)
         formattedParams == formatForCloudFormation(mergedParams)
     IN IF ~merged.ok
        THEN /\ run' = [run EXCEPT !.pc = "failed", !.failedAt = run.pc]
             /\ failure' = setFailed(merged.error)
        ELSE IF ~formattedParams.ok
        THEN /\ run' = [run EXCEPT !.pc = "failed", !.failedAt = run.pc,
                                   !.mergedParams = mergedParams]
             /\ failure' = setFailed(formattedParams.error)
        ELSE /\ run' = [run EXCEPT !.pc = "mergeTags", !.mergedParams = mergedParams,
                                   !.formattedParams = formattedParams.value]
             /\ UNCHANGED failure
  /\ UNCHANGED <<call, ret, world, outputs>>

\* merge the tags, add the GitHub metadata tags, format
MergeAndFormatTags ==
  /\ run.pc = "mergeTags"
  /\ LET merged == mergeParameters(run.defaultTags, run.envTags)
         mergedTags == AddGitHubTags(merged.value, world.env, world.now)
         formattedTags == formatTagsForCloudFormation(mergedTags)
     IN IF ~merged.ok
        THEN /\ run' = [run EXCEPT !.pc = "failed", !.failedAt = run.pc]
             /\ failure' = setFailed(merged.error)
        ELSE IF ~formattedTags.ok
        THEN /\ run' = [run EXCEPT !.pc = "failed", !.failedAt = run.pc,
                                   !.mergedTags = mergedTags]
             /\ failure' = setFailed(formattedTags.error)
        ELSE /\ run' = [run EXCEPT !.pc = "generateStackName", !.mergedTags = mergedTags,
                                   !.formattedTags = formattedTags.value]
             /\ UNCHANGED failure
  /\ UNCHANGED <<call, ret, world, outputs>>

\* generate the stack name and append the CI build id
MakeStackName ==
  /\ run.pc = "generateStackName"
  /\ LET project == Lookup(run.config.entries, Project)
         stackPrefix == Lookup(run.config.entries, StackPrefix)
         r == generateStackName(project, stackPrefix, run.isCiBuild, run.environment,
                                world.git)
         looked == IF CheckNameComponents(project, stackPrefix, run.isCiBuild).ok
                      /\ run.isCiBuild.b THEN 1 ELSE 0
     IN IF r.ok
        THEN /\ run' = [run EXCEPT !.pc = "setOutput", !.lookups = @ + looked,
                          !.stackName = AppendCiBuildId(r.value, run.isCiBuild, run.ciBuildId)]
             /\ UNCHANGED failure
        ELSE /\ run' = [run EXCEPT !.pc = "failed", !.failedAt = run.pc, !.lookups = @ + looked]
             /\ failure' = setFailed(r.error)
  /\ UNCHANGED <<call, ret, world, outputs>>

\* the next call of core.setOutput; after the last one run returns
SetOutput ==
  /\ run.pc = "setOutput"
  /\ Len(outputs) < Len(OutputsOf(run))
  /\ outputs' = Append(outputs, OutputsOf(run)[Len(outputs) + 1])
  /\ run' = [run EXCEPT !.pc = IF Len(outputs') = Len(OutputsOf(run)) THEN "done"
                               ELSE "setOutput"]
  /\ UNCHANGED <<call, ret, world, failure>>

Next ==
  \/ GetInputs
  \/ ParseBooleanInput
  \/ ValidateInputs
  \/ LoadConfig
  \/ LoadDefaultParams
  \/ LoadEnvParams
  \/ LoadDefaultTags
  \/ LoadEnvTags
  \/ MakeCiBuildId
  \/ MergeAndFormatParams
  \/ MergeAndFormatTags
  \/ MakeStackName
  \/ SetOutput

(***************************************************************************)
(* Bounds and sample inputs                                                *)
(***************************************************************************)
\* enumerated strings have at most this many characters
MaxSampleLength == 4
\* sampled lengths lie within this distance of each length limit
LengthSlack == 1
\* sampled maps have at most this many entries
MaxMapEntries == 2
\* Math.random() is sampled at k/RandomSamples, and at the largest value below 1
RandomSamples == 2

SampleChars == {"a", "Z", "7", "-", "/", "@"}

\* every string over chars of at most n characters
Strings(chars, n) == UNION {[1..k -> chars] : k \in 0..n}

\* the lengths around a limit: the last accepted ones and the first rejected ones
Around(limit) == (limit - LengthSlack + 1)..(limit + LengthSlack)

Idle ==
  /\ world = [t |-> "none"]
  /\ run = [pc |-> "idle"]
  /\ outputs = <<>>
  /\ failure = [t |-> "none"]

(***************************************************************************)
(* sanitizeBranchName as a unit: apply it, and apply it to its own result  *)
(***************************************************************************)
BranchExamples ==
  { <<"f","e","a","t","u","r","e","/","/","/","f","i","x","_","_","_","b","u","g">>,
    <<"-","f","e","a","t","u","r","e","-">>,
    <<"F","e","a","t","u","r","e","/","U","S","E","R","-","A","U","T","H">>,
    <<"b","r","a","n","c","h"," "," ","w","i","t","h"," ","s","p","a","c","e","s">>,
    <<"@","@","@">>, <<"-","-","-">> }

BranchStrings == Strings(SampleChars, MaxSampleLength) \cup BranchExamples

InitSanitize ==
  /\ call \in {[op |-> "sanitizeBranchName", branchName |-> s] : s \in BranchStrings}
  /\ ret = <<>>
  /\ Idle

Sanitize ==
  /\ call.op = "sanitizeBranchName"
  /\ ret = <<>>
  /\ ret' = <<sanitizeBranchName(call.branchName)>>
  /\ UNCHANGED <<call, world, run, outputs, failure>>

SanitizeAgain ==
  /\ call.op = "sanitizeBranchName"
  /\ Len(ret) = 1
  /\ ret[1].ok
  /\ ret' = Append(ret, sanitizeBranchName(ret[1].value))
  /\ UNCHANGED <<call, world, run, outputs, failure>>

NextSanitize == Sanitize \/ SanitizeAgain

SpecSanitize == InitSanitize /\ [][NextSanitize]_vars

(***************************************************************************)
(* Properties of sanitizeBranchName                                        *)
(***************************************************************************)
Alnum == Upper \cup Lower \cup Digit

\* /^[a-z0-9-]*$/.test(s)
MatchesLowerNameStar(s) == \A i \in 1..Len(s) : s[i] \in Lower \cup Digit \cup {Hyphen}

\* the length of the run of letters and digits that s starts with
LeadingRun(s) ==
  CHOOSE n \in 0..Len(s) :
    /\ \A i \in 1..n : s[i] \in Alnum
    /\ n = Len(s) \/ s[n + 1] \notin Alnum

\* the maximal runs of letters and digits of s, in order
RECURSIVE AlnumRuns(_)
AlnumRuns(s) ==
  IF s = <<>> THEN <<>>
  ELSE IF Head(s) \notin Alnum THEN AlnumRuns(Tail(s))
  ELSE <<SubSeq(s, 1, LeadingRun(s))>> \o AlnumRuns(SubSeq(s, LeadingRun(s) + 1, Len(s)))

RECURSIVE JoinWithHyphen(_)
JoinWithHyphen(runs) ==
  IF runs = <<>> THEN <<>>
  ELSE IF Len(runs) = 1 THEN runs[1]
  ELSE runs[1] \o <<Hyphen>> \o JoinWithHyphen(Tail(runs))

\* what the four steps amount to: the lowercased runs of letters and digits,
\* joined by single hyphens
SanitizedForm(s) == toLowerCase(JoinWithHyphen(AlnumRuns(s)))

\* C6 as claimed: for every branch string s, sanitize(s) is defined and matches
\* ^[a-z0-9-]*$, and sanitizing the result again gives the same result -- also
\* when the sanitized form is empty.
C6_SanitizeTotalIdempotent ==
  /\ Len(ret) >= 1 => ret[1].ok /\ MatchesLowerNameStar(ret[1].value)
  /\ Len(ret) = 2 => ret[2] = ret[1]

\* C6 amended: for every non-empty branch string s, sanitize(s) is defined and
\* matches ^[a-z0-9-]*$ (possibly empty), and sanitize(sanitize(s)) = sanitize(s)
\* whenever sanitize(s) is not empty; sanitize of the empty string fails
\* ('Branch name cannot be empty'), and so does sanitizing an empty sanitized form.
C6_SanitizeIdempotentOnNonEmpty ==
  /\ Len(ret) >= 1 =>
       /\ ret[1].ok <=> call.branchName # <<>>
       /\ ret[1].ok => MatchesLowerNameStar(ret[1].value)
  /\ Len(ret) = 2 =>
       IF ret[1].value = <<>> THEN ret[2] = Err("BranchNameEmpty") ELSE ret[2] = ret[1]

\* a string that sanitizing changes has been sanitized twice, with the same result
C6_Witness ==
  /\ Len(ret) = 2
  /\ ret[1].value # <<>>
  /\ ret[1].value # call.branchName
  /\ ret[2] = ret[1]

\* C7: for every non-empty branch string the result is that of replace, collapse,
\* strip, lowercase in this order: the lowercased runs of letters and digits joined
\* by single hyphens; it never starts or ends with '-', never holds '--' and holds
\* no uppercase letter; 'feature///fix___bug' gives 'feature-fix-bug' and
\* '-feature-' gives 'feature'.
C7_SanitizeSteps ==
  Len(ret) >= 1 /\ call.op = "sanitizeBranchName" /\ call.branchName # <<>> =>
    LET r == ret[1] IN
    /\ r.ok
    /\ r.value = SanitizedForm(call.branchName)
    /\ r.value # <<>> => r.value[1] # Hyphen /\ r.value[Len(r.value)] # Hyphen
    /\ \A i \in 1..(Len(r.value) - 1) : ~(r.value[i] = Hyphen /\ r.value[i + 1] = Hyphen)
    /\ \A i \in 1..Len(r.value) : r.value[i] \notin Upper
    /\ call.branchName = <<"-","f","e","a","t","u","r","e","-">> =>
         r.value = <<"f","e","a","t","u","r","e">>
    /\ call.branchName =
         <<"f","e","a","t","u","r","e","/","/","/","f","i","x","_","_","_","b","u","g">> =>
         r.value = <<"f","e","a","t","u","r","e","-","f","i","x","-","b","u","g">>

\* 'feature///fix___bug' has been sanitized to 'feature-fix-bug'
C7_Witness ==
  /\ Len(ret) >= 1
  /\ call.branchName =
       <<"f","e","a","t","u","r","e","/","/","/","f","i","x","_","_","_","b","u","g">>
  /\ ret[1] = Ok(<<"f","e","a","t","u","r","e","-","f","i","x","-","b","u","g">>)

(***************************************************************************)
(* generateStackName as a unit                                             *)
(***************************************************************************)
\* the suffix length with which two components of maximal length reach the cap
FillLength == MaxStackNameLength - 2 * MaxComponentLength - 2

ProjectSamples ==
  {JsString(<<"m","y","a","p","p">>), JsString(<<"m","y","_","p">>),
   JsString(<<" ">>), JsNull}
    \cup {JsString(Repeat("p", n)) : n \in Around(MaxComponentLength)}

StackPrefixSamples ==
  {JsString(<<"a","p","i">>), JsString(<<"a",".","b">>), JsUndefined}
    \cup {JsString(Repeat("s", n)) : n \in Around(MaxComponentLength)}

EnvironmentSamples ==
  {JsString(<<"d","e","v">>), JsString(<<"P","r","o","d","-","1">>),
   JsString(<<"d","e","v","_","e","n","v">>), JsString(<<>>), JsNull}
    \cup {JsString(Repeat("e", n)) : n \in Around(MaxComponentLength) \cup Around(FillLength)}

CiBuildSamples == {JsBoolean(TRUE), JsBoolean(FALSE), JsString(<<"t","r","u","e">>)}

GitStdoutSamples ==
  { <<"m","a","i","n","\n">>,
    <<"f","e","a","t","u","r","e","/","J","I","R","A","-","1","2","3","_","f","i","x","\n">>,
    <<" ","F","i","x","/","x"," ","\n">>,
    <<"H","E","A","D","\n">>, <<"H","E","A","D">>, <<"h","e","a","d","\n">>,
    <<>>, <<"\n">>, <<" "," ","\n">>,
    <<"@","@","@","\n">>, <<"-","-","-">> }
    \cup {Repeat("b", n) : n \in Around(MaxBranchNameLength) \cup Around(FillLength)}

GitErrorSamples ==
  { GitThrow("ENOENT", "", FALSE, 0, "spawn git ENOENT"),
    GitThrow("ENOENT", "", FALSE, 128, "spawn git ENOENT"),
    GitThrow("", "SIGTERM", TRUE, 0, "Command timed out"),
    GitThrow("", "", TRUE, 128, "Command timed out"),
    GitThrow("", "", FALSE, 128, "Not a git repository"),
    GitThrow("", "", FALSE, 129, "Invalid command"),
    GitThrow("", "", FALSE, 1, "Some other git error"),
    GitThrow("ENOENT", "SIGTERM", TRUE, 129, "spawn git ENOENT"),
    GitThrow("", "SIGTERM", FALSE, 129, "Command timed out"),
    GitThrow("", "", FALSE, 1, "Branch name is too long") }

GitSamples == {GitStdout(out) : out \in GitStdoutSamples} \cup GitErrorSamples

InitName ==
  /\ call \in {[op |-> "generateStackName", project |-> p, stackPrefix |-> sp,
                isCiBuild |-> ci, environment |-> e, git |-> g] :
               p \in ProjectSamples, sp \in StackPrefixSamples, ci \in CiBuildSamples,
               e \in EnvironmentSamples, g \in GitSamples}
  /\ ret = <<>>
  /\ Idle

GenerateStackName ==
  /\ call.op = "generateStackName"
  /\ ret = <<>>
  /\ ret' = <<generateStackName(call.project, call.stackPrefix, call.isCiBuild,
                                call.environment, call.git)>>
  /\ UNCHANGED <<call, world, run, outputs, failure>>

NextName == GenerateStackName

SpecName == InitName /\ [][NextName]_vars

(***************************************************************************)
(* Properties of generateStackName                                         *)
(***************************************************************************)
\* a project, stack prefix or environment tag the resolver accepts
ValidComponent(v) ==
  /\ v.t = "string"
  /\ v.s # <<>>
  /\ \A i \in 1..Len(v.s) : v.s[i] \in Alnum \cup {Hyphen}
  /\ Len(v.s) <= 50

\* the branch lookup answered with a usable branch name
BranchResolved(git) ==
  /\ git.t = "stdout"
  /\ trim(git.out) \notin {<<>>, HEAD}
  /\ Len(trim(git.out)) <= 100

NameCalled == Len(ret) = 1 /\ call.op = "generateStackName"

\* project-stackPrefix-suffix, written out
Joined(p, sp, suffix) == p.s \o <<"-">> \o sp.s \o <<"-">> \o suffix

SuffixOf(c) ==
  IF c.isCiBuild = JsBoolean(TRUE) THEN SanitizedForm(trim(c.git.out)) ELSE c.environment.s

\* every argument of the call passes the checks that precede the length check
ComponentsAccepted(c) ==
  /\ ValidComponent(c.project)
  /\ ValidComponent(c.stackPrefix)
  /\ c.isCiBuild.t = "boolean"
  /\ IF c.isCiBuild.b
     THEN BranchResolved(c.git) /\ SanitizedForm(trim(c.git.out)) # <<>>
     ELSE ValidComponent(c.environment)

C9_BranchFailures ==
  NameCalled /\ call.isCiBuild = JsBoolean(TRUE) =>
    /\ call.git.t = "throw" \/ (call.git.t = "stdout" /\ trim(call.git.out) \in {<<>>, HEAD})
         => /\ ~ret[1].ok
            /\ ValidComponent(call.project) /\ ValidComponent(call.stackPrefix)
                 => ret[1].error \in BranchResolutionFailed
    /\ call.git.t = "stdout" /\ SanitizedForm(trim(call.git.out)) = <<>>
         => /\ ~ret[1].ok
            /\ ValidComponent(call.project) /\ ValidComponent(call.stackPrefix)
                 /\ trim(call.git.out) # <<>>
                 => ret[1].error = "SanitizationEmpty"

\* the lookup printed HEAD and the call failed as an unresolved branch
C9_Witness ==
  /\ NameCalled
  /\ call.isCiBuild = JsBoolean(TRUE)
  /\ call.git.t = "stdout"
  /\ trim(call.git.out) = HEAD
  /\ ret[1] = Err("BranchUndetermined")

(***************************************************************************)
(* generateRandomId as a unit                                              *)
(***************************************************************************)
\* Math.random(): k/RandomSamples, and a value just below 1
RandomValues ==
  {[num |-> k, den |-> RandomSamples] : k \in 0..(RandomSamples - 1)}
    \cup {[num |-> 999999, den |-> 1000000]}

LengthSamples ==
  {JsUndefined, JsNull, JsString(<<"8">>), JsNaN, JsInfinity, JsFraction(13, 2),
   JsNumber(0), JsNumber(-8)}
    \cup {JsNumber(n) : n \in (MinIdLength - LengthSlack)..(MaxIdLength + LengthSlack)}

\* how many values of Math.random() a call with this argument can consume
DrawsFor(length) ==
  IF length.t = "undefined" THEN DefaultIdLength
  ELSE IF length.t = "number" /\ length.den = 1
          /\ length.num >= MinIdLength /\ length.num <= MaxIdLength THEN length.num
  ELSE MinIdLength

\* the streams of n values of Math.random() that hold one value throughout, or one
\* value at a single place and another everywhere else
RandomStreams(n) ==
  {[i \in 1..n |-> IF i = k THEN a ELSE b] : k \in 1..n, a \in RandomValues, b \in RandomValues}

InitId ==
  /\ call \in UNION {{[op |-> "generateRandomId", length |-> l, randoms |-> r] :
                       r \in RandomStreams(DrawsFor(l))} : l \in LengthSamples}
  /\ ret = <<>>
  /\ Idle

GenerateRandomId ==
  /\ call.op = "generateRandomId"
  /\ ret = <<>>
  /\ ret' = <<generateRandomId(call.length, call.randoms)>>
  /\ UNCHANGED <<call, world, run, outputs, failure>>

NextId == GenerateRandomId

SpecId == InitId /\ [][NextId]_vars

IdCalled == Len(ret) = 1 /\ call.op = "generateRandomId"

\* the argument is an integer of 6..10
LengthInRange(length) ==
  /\ length.t = "number"
  /\ length.den # 0
  /\ \E n \in 6..10 : length.num = n * length.den

KeySamples == << <<"A">>, <<"b","1">>, <<"m","y","-","k">> >>

ValueSamples ==
  {JsString(<<"x">>), JsString(<<>>), JsNumber(0), JsBoolean(FALSE), JsNull}

\* the map with the keys KeySamples[i], i in S, in this order, and the values f[i]
EntriesOf(S, f) ==
  LET at(j) == CHOOSE i \in S : Cardinality({k \in S : k < i}) = j - 1 IN
  [j \in 1..Cardinality(S) |-> Entry(KeySamples[at(j)], f[at(j)])]

MapSamples ==
  UNION {{EntriesOf(S, f) : f \in [S -> ValueSamples]} :
         S \in {T \in SUBSET (1..Len(KeySamples)) : Cardinality(T) <= MaxMapEntries}}

Reverse(m) == [i \in 1..Len(m) |-> m[Len(m) + 1 - i]]

DefaultArgumentSamples ==
  {JsMap(m) : m \in MapSamples} \cup {JsNull, JsArray(<<"[","]">>)}

EnvironmentArgumentSamples ==
  {JsMap(Reverse(m)) : m \in MapSamples}
    \cup {JsNull, JsUndefined, JsArray(<<"[","]">>), JsString(<<"x">>)}

InitMerge ==
  /\ call \in {[op |-> "mergeParameters", defaultParams |-> d, envParams |-> e] :
               d \in DefaultArgumentSamples, e \in EnvironmentArgumentSamples}
  /\ ret = <<>>
  /\ Idle

MergeParameters ==
  /\ call.op = "mergeParameters"
  /\ ret = <<>>
  /\ ret' = <<mergeParameters(call.defaultParams, call.envParams)>>
  /\ UNCHANGED <<call, world, run, outputs, failure>>

NextMerge == MergeParameters

SpecMerge == InitMerge /\ [][NextMerge]_vars

MergeCalled == Len(ret) = 1 /\ call.op = "mergeParameters"

\* a valid parameter map: at most 200 entries, each key a letter followed by letters
\* and digits, at most 255 characters, each value present and at most 4096 characters
ValidParameterMap(v) ==
  /\ v.t = "map"
  /\ Len(v.entries) <= 200
  /\ \A i \in 1..Len(v.entries) :
       LET e == v.entries[i] IN
       /\ e.k # <<>> /\ Len(e.k) <= 255
       /\ e.k[1] \in Upper \cup Lower
       /\ \A j \in 1..Len(e.k) : e.k[j] \in Alnum
       /\ e.v.t \notin {"null", "undefined"}
       /\ Len(StringValue(e.v)) <= 4096

\* C1: for valid parameter maps base and override (override present),
\* mergeParameters returns a map whose key set is the union of both key sets and
\* whose value at each key k is override[k] when k is a key of override and base[k]
\* otherwise; override wins also when override[k] is falsy (0, false, '').
C1_MergePrecedence ==
  MergeCalled /\ ValidParameterMap(call.defaultParams) /\ ValidParameterMap(call.envParams) =>
    LET base == call.defaultParams.entries
        override == call.envParams.entries
    IN /\ ret[1].ok
       /\ ret[1].value.t = "map"
       /\ Keys(ret[1].value.entries) = Keys(base) \cup Keys(override)
       /\ Len(ret[1].value.entries) = Cardinality(Keys(base) \cup Keys(override))
       /\ \A k \in Keys(base) \cup Keys(override) :
            Lookup(ret[1].value.entries, k) =
              (IF k \in Keys(override) THEN Lookup(override, k) ELSE Lookup(base, k))

\* a merge in which a falsy override value (0) replaced the base's value 'x'
C1_Witness ==
  /\ MergeCalled
  /\ ValidParameterMap(call.defaultParams) /\ ValidParameterMap(call.envParams)
  /\ ret[1].ok
  /\ \E k \in Keys(call.defaultParams.entries) \cap Keys(call.envParams.entries) :
       /\ Lookup(call.envParams.entries, k) = JsNumber(0)
       /\ Lookup(call.defaultParams.entries, k) = JsString(<<"x">>)
       /\ Lookup(ret[1].value.entries, k) = JsNumber(0)

(***************************************************************************)
(* The readers of ConfigurationReader as units                             *)
(***************************************************************************)
Dev == <<"d","e","v">>

FolderPathSamples == {JsString(<<"c","f","n">>), JsString(<<>>), JsNull}

EnvironmentNameSamples ==
  {JsString(Dev), JsString(DefaultJson), JsString(<<>>), JsString(<<" ","\t">>),
   JsNull, JsUndefined, JsNumber(7)}

\* what a path can hold that is not a JSON object
BrokenFileSamples ==
  {Missing, Directory, Denied,
   TextFile(<<>>), TextFile(<<" ","\n">>), TextFile(<<"{","a">>),
   JsonFile(JsArray(<<"[","]">>)), JsonFile(JsNull), JsonFile(JsNumber(0)),
   JsonFile(JsString(<<"x">>)), JsonFile(JsBoolean(TRUE))}

\* what a required field of cloudformation.json can hold; "absent" leaves it out
FieldSamples ==
  {[t |-> "absent"], JsNull, JsString(<<>>), JsString(<<"x">>), JsNumber(0)}

\* cloudformation.json with the fields in the order template, stack-prefix, project
DescriptorOf(f) ==
  SelectSeq(<<Entry(Template, f[2]), Entry(StackPrefix, f[3]), Entry(Project, f[1])>>,
            LAMBDA e : e.v.t # "absent")

DescriptorFileSamples ==
  BrokenFileSamples \cup {JsonFile(JsMap(DescriptorOf(f))) : f \in [1..3 -> FieldSamples]}

MapFileSamples ==
  BrokenFileSamples
    \cup {JsonFile(JsMap(m)) :
            m \in {n \in MapSamples : \A i \in 1..Len(n) : n[i].v = JsString(<<"x">>)}}

EnvironmentPaths == {Path(d, n) : d \in {"params", "tags"}, n \in {Dev, DefaultJson}}

\* a file system with the file f at path p and the object {} at every other path in
\* others
FileSystemWith(p, f, others) ==
  [q \in {p} \cup others |-> IF q = p THEN f ELSE JsonFile(JsMap(<<>>))]

InitLoader ==
  /\ call \in
       {[op |-> "readCloudFormationConfig", folderPath |-> d, environment |-> JsNull,
         fs |-> FileSystemWith(Path("", CloudFormationJson), f, EnvironmentPaths)] :
          d \in FolderPathSamples, f \in DescriptorFileSamples}
       \cup
       {[op |-> o, folderPath |-> d, environment |-> JsNull,
         fs |-> FileSystemWith(Path(IF o = "readDefaultParameters" THEN "params" ELSE "tags",
                                    DefaultJson), f, EnvironmentPaths)] :
          o \in {"readDefaultParameters", "readDefaultTags"},
          d \in FolderPathSamples, f \in MapFileSamples}
       \cup
       {[op |-> o, folderPath |-> d, environment |-> e,
         fs |-> FileSystemWith(Path(IF o = "readEnvironmentParameters" THEN "params" ELSE "tags",
                                    Dev), f, EnvironmentPaths)] :
          o \in {"readEnvironmentParameters", "readEnvironmentTags"},
          d \in FolderPathSamples, e \in EnvironmentNameSamples, f \in MapFileSamples}
  /\ ret = <<>>
  /\ Idle

ReadCloudFormationConfig ==
  /\ call.op = "readCloudFormationConfig"
  /\ ret = <<>>
  /\ ret' = <<readCloudFormationConfig(call.folderPath, call.fs)>>
  /\ UNCHANGED <<call, world, run, outputs, failure>>

ReadDefaultParameters ==
  /\ call.op = "readDefaultParameters"
  /\ ret = <<>>
  /\ ret' = <<readDefaultParameters(call.folderPath, call.fs)>>
  /\ UNCHANGED <<call, world, run, outputs, failure>>

ReadEnvironmentParameters ==
  /\ call.op = "readEnvironmentParameters"
  /\ ret = <<>>
  /\ ret' = <<readEnvironmentParameters(call.folderPath, call.environment, call.fs)>>
  /\ UNCHANGED <<call, world, run, outputs, failure>>

ReadDefaultTags ==
  /\ call.op = "readDefaultTags"
  /\ ret = <<>>
  /\ ret' = <<readDefaultTags(call.folderPath, call.fs)>>
  /\ UNCHANGED <<call, world, run, outputs, failure>>

ReadEnvironmentTags ==
  /\ call.op = "readEnvironmentTags"
  /\ ret = <<>>
  /\ ret' = <<readEnvironmentTags(call.folderPath, call.environment, call.fs)>>
  /\ UNCHANGED <<call, world, run, outputs, failure>>

NextLoader ==
  \/ ReadCloudFormationConfig
  \/ ReadDefaultParameters
  \/ ReadEnvironmentParameters
  \/ ReadDefaultTags
  \/ ReadEnvironmentTags

SpecLoader == InitLoader /\ [][NextLoader]_vars

(***************************************************************************)
(* Properties of the readers                                               *)
(***************************************************************************)
\* the folder path is a non-empty string
RootPathGiven == call.folderPath.t = "string" /\ Len(call.folderPath.s) > 0

EnvironmentReaderCalled ==
  /\ Len(ret) = 1
  /\ call.op \in {"readEnvironmentParameters", "readEnvironmentTags"}
  /\ RootPathGiven

\* the environment name is a string with a character that is not white space
EnvironmentNamed ==
  /\ call.environment.t = "string"
  /\ \E i \in 1..Len(call.environment.s) : call.environment.s[i] \notin WhiteSpace

\* the path of the override document the call is about
OverridePath ==
  Path(IF call.op = "readEnvironmentParameters" THEN "params" ELSE "tags",
       call.environment.s)

\* the file holds text other than white space that parses to a JSON object
HoldsJsonObject(file) == file.kind = "file" /\ file.json /\ file.value.t = "map"

\* C3: loading an environment override document (readEnvironmentParameters /
\* readEnvironmentTags, folder path given) has exactly three outcomes: null when the
\* environment name is empty, whitespace-only or not a string (and then no file is
\* accessed) or when the file does not exist; a thrown error when the path exists
\* but is not a regular file, is empty or whitespace-only, is not valid JSON, or
\* parses to an array, scalar or null; the parsed map otherwise.
C3_OverrideOutcomes ==
  EnvironmentReaderCalled =>
    IF ~EnvironmentNamed THEN ret[1] = Accessing(Ok(JsNull), {})
    ELSE LET file == IF OverridePath \in DOMAIN call.fs THEN call.fs[OverridePath]
                     ELSE Missing
         IN /\ ret[1].accessed = {OverridePath}
            /\ IF file.kind = "missing" THEN ret[1].ok /\ ret[1].value = JsNull
               ELSE IF HoldsJsonObject(file) THEN ret[1].ok /\ ret[1].value = file.value
               ELSE ~ret[1].ok

\* an override document holding only white space was found and refused, not taken
\* for an absent one
C3_Witness ==
  /\ EnvironmentReaderCalled
  /\ call.environment = JsString(Dev)
  /\ call.fs[OverridePath] = TextFile(<<" ","\n">>)
  /\ ~ret[1].ok
  /\ ret[1].error = "Empty"

DescriptorReaderCalled ==
  /\ Len(ret) = 1
  /\ call.op = "readCloudFormationConfig"
  /\ RootPathGiven
  /\ call.fs[Path("", CloudFormationJson)] # Denied

\* the field is present in the object, not null and not the empty string
FieldGiven(object, field) ==
  \E i \in 1..Len(object.entries) :
    /\ object.entries[i].k = field
    /\ object.entries[i].v.t # "null"
    /\ object.entries[i].v # JsString(<<>>)

\* what the descriptor load is to give for a file: the kind of the first failing
\* check, or the object
DescriptorOutcome(file) ==
  IF file.kind = "missing" THEN [ok |-> FALSE, error |-> "NotFound"]
  ELSE IF file.kind # "file" THEN [ok |-> FALSE, error |-> "NotAFile"]
  ELSE IF ~file.json /\ \A i \in 1..Len(file.text) : file.text[i] \in WhiteSpace
  THEN [ok |-> FALSE, error |-> "Empty"]
  ELSE IF ~file.json THEN [ok |-> FALSE, error |-> "InvalidSyntax"]
  ELSE IF file.value.t # "map" THEN [ok |-> FALSE, error |-> "NotAnObject"]
  ELSE IF ~FieldGiven(file.value, Project)
  THEN [ok |-> FALSE, error |-> "MissingField", field |-> Project]
  ELSE IF ~FieldGiven(file.value, Template)
  THEN [ok |-> FALSE, error |-> "MissingField", field |-> Template]
  ELSE IF ~FieldGiven(file.value, StackPrefix)
  THEN [ok |-> FALSE, error |-> "MissingField", field |-> StackPrefix]
  ELSE [ok |-> TRUE, value |-> file.value]

Str(s) == JsString(s)

World(folder, ciBuild, environment, files, git, randoms, github, now) ==
  [t |-> "world",
   env |-> [INPUT_CFN_DIRECTORY |-> folder, INPUT_CI_BUILD |-> ciBuild,
            INPUT_ENVIRONMENT |-> environment,
            GITHUB_SHA |-> github[1], GITHUB_ACTOR |-> github[2],
            GITHUB_WORKFLOW |-> github[3], GITHUB_REPOSITORY |-> github[4]],
   fs |-> [q \in {Path("", CloudFormationJson), Path("params", DefaultJson),
                  Path("params", Dev), Path("tags", DefaultJson), Path("tags", Dev)} |->
             IF q = Path("", CloudFormationJson) THEN files[1]
             ELSE IF q = Path("params", DefaultJson) THEN files[2]
             ELSE IF q = Path("params", Dev) THEN files[3]
             ELSE IF q = Path("tags", DefaultJson) THEN files[4]
             ELSE files[5]],
   git |-> git, randoms |-> randoms, now |-> now]

Descriptor(project, template, stackPrefix) ==
  JsonFile(JsMap(<<Entry(Project, project), Entry(Template, template),
                   Entry(StackPrefix, stackPrefix)>>))

MyApp == <<"m","y","a","p","p">>
StackYaml == <<"s","t","a","c","k",".","y","a","m","l">>
Api == <<"a","p","i">>
MyKey == <<"m","y","-","k">>

FolderInputSamples ==
  {JsUndefined, Str(Cfn), Str(<<".",".","/","x">>), Str(<<"/","x">>), Str(<<"~">>),
   Str(<<" ">>)}
    \cup {Str(Repeat("f", n)) : n \in Around(MaxFolderLength)}

CiBuildInputSamples ==
  {JsUndefined, Str(True), Str(False), Str(<<" ","T","R","U","E"," ">>),
   Str(<<"y","e","s">>), Str(<<>>)}

EnvironmentInputSamples ==
  {JsUndefined, Str(Dev), Str(<<"d","e","_","v">>), Str(<<" ","d","e","v">>),
   Str(<<"d","@","v">>), Str(<<" ">>)}
    \cup {Str(Repeat("e", n)) : n \in Around(MaxComponentLength)
                                       \cup Around(MaxEnvironmentInputLength)}

DescriptorSamples ==
  {Missing, Directory, TextFile(<<" ">>), TextFile(<<"{">>), JsonFile(JsArray(<<"[","]">>)),
   Descriptor(Str(MyApp), Str(StackYaml), Str(Api)),
   Descriptor(Str(MyApp), JsNull, Str(Api)),
   Descriptor(Str(MyApp), JsNumber(0), Str(Api)),
   Descriptor(JsNumber(7), Str(StackYaml), Str(Api)),
   Descriptor(Str(<<"m","y","_","p">>), Str(StackYaml), Str(Api)),
   Descriptor(Str(Repeat("p", MaxComponentLength)), Str(StackYaml),
              Str(Repeat("s", MaxComponentLength)))}

DefaultParameterFileSamples ==
  {Missing, Directory, TextFile(<<>>), TextFile(<<"{">>), JsonFile(JsArray(<<"[","]">>)),
   JsonFile(JsNull), JsonFile(Str(<<"x">>)),
   JsonFile(JsMap(<<>>)),
   JsonFile(JsMap(<<Entry(<<"A">>, Str(<<"x">>)), Entry(<<"B">>, JsNumber(1))>>)),
   JsonFile(JsMap(<<Entry(<<"A">>, JsNull)>>)),
   JsonFile(JsMap(<<Entry(MyKey, Str(<<"x">>))>>)),
   JsonFile(JsMap(<<Entry(CiBuildIdKey, Str(<<"x">>)), Entry(<<"A">>, Str(<<"x">>))>>))}

EnvironmentParameterFileSamples ==
  {Missing, Directory, TextFile(<<"{">>),
   JsonFile(JsMap(<<Entry(<<"A">>, JsNumber(0))>>)),
   JsonFile(JsMap(<<Entry(<<"C">>, Str(<<"\"">>))>>)),
   JsonFile(JsMap(<<Entry(MyKey, Str(<<"x">>))>>))}

DefaultTagFileSamples ==
  {Missing, Directory, TextFile(<<" ">>), TextFile(<<"{">>), JsonFile(JsNull),
   JsonFile(JsArray(<<"[","]">>)),
   JsonFile(JsMap(<<>>)),
   JsonFile(JsMap(<<Entry(<<"T">>, Str(<<"x">>))>>)),
   JsonFile(JsMap(<<Entry(MyKey, Str(<<"x">>))>>)),
   JsonFile(JsMap(<<Entry(GitCommit, Str(<<"x">>)), Entry(<<"T">>, JsNull)>>)),
   JsonFile(JsMap(<<Entry(GitCommit, Str(<<"x">>)), Entry(GitRepo, Str(<<"x">>))>>))}

EnvironmentTagFileSamples ==
  {Missing, Denied, TextFile(<<"{">>),
   JsonFile(JsMap(<<Entry(<<"T">>, JsBoolean(FALSE))>>)),
   JsonFile(JsMap(<<Entry(MyKey, Str(<<"x">>))>>)),
   JsonFile(JsMap(<<Entry(GitOrg, Str(<<"x">>))>>))}

GitRunSamples ==
  {GitStdout(<<"m","a","i","n","\n">>),
   GitStdout(<<"f","e","a","t","u","r","e","/","J","I","R","A","-","1","2","3","\n">>),
   GitStdout(<<"H","E","A","D","\n">>), GitStdout(<<"@","@","@","\n">>),
   GitThrow("", "SIGTERM", TRUE, 0, "Command timed out"),
   GitThrow("", "", FALSE, 128, "Not a git repository")}
    \cup {GitStdout(Repeat("b", n)) : n \in Around(FillLength - DefaultIdLength - 1)
                                             \cup Around(FillLength)}

RandomStreamSamples == {[i \in 1..DefaultIdLength |-> r] : r \in RandomValues}

Sha == <<"0","1","2","3","4","5","6","7","8","9","a","b">>
GitHubSamples ==
  { <<Str(Sha), Str(<<"o","c","t","o">>), Str(<<"d","e","p","l","o","y">>),
      Str(<<"o","r","g","/","r","e","p","o">>)>>,
    <<JsUndefined, JsUndefined, JsUndefined, JsUndefined>>,
    <<Str(<<"a","b","c">>), Str(<<>>), Str(<<"c","i">>), Str(<<"o","r","g","/">>)>> }

Now == <<"2","0","2","4","-","0","1","-","0","2","T",
         "0","3",":","0","4",":","0","5",".","0","0","6","Z">>

GoodFiles ==
  << Descriptor(Str(MyApp), Str(StackYaml), Str(Api)),
     JsonFile(JsMap(<<Entry(<<"A">>, Str(<<"x">>)), Entry(<<"B">>, JsNumber(1))>>)),
     JsonFile(JsMap(<<Entry(<<"A">>, JsNumber(0))>>)),
     JsonFile(JsMap(<<Entry(<<"T">>, Str(<<"x">>))>>)),
     JsonFile(JsMap(<<Entry(<<"T">>, JsBoolean(FALSE))>>)) >>

GoodGit == GitStdout(<<"m","a","i","n","\n">>)
GoodRandoms == [i \in 1..DefaultIdLength |-> [num |-> 0, den |-> 1]]
GoodGitHub ==
  <<Str(Sha), Str(<<"o","c","t","o">>), Str(<<"d","e","p","l","o","y">>),
    Str(<<"o","r","g","/","r","e","p","o">>)>>

\* maps at the limits of validateParameterObject and validateTagsObject
NumberedKey(i) == <<"K">> \o NatToString(i)

ManyEntries(n, v) == [i \in 1..n |-> Entry(NumberedKey(i), v)]

\* the JSON text of an array of n characters
LongArrayJson(n) == <<"[">> \o Repeat("1", n - 2) \o <<"]">>

LimitParameterFileSamples ==
  {JsonFile(JsMap(<<Entry(<<"A">>, Str(Repeat("v", n)))>>)) : n \in Around(MaxParameterValueLength)}
    \cup {JsonFile(JsMap(<<Entry(<<"A">>, JsArray(LongArrayJson(n)))>>)) :
             n \in Around(MaxParameterValueLength)}
    \cup {JsonFile(JsMap(<<Entry(Repeat("k", n), Str(<<"x">>))>>)) :
             n \in Around(MaxParameterNameLength)}
    \cup {JsonFile(JsMap(ManyEntries(n, Str(<<"x">>)))) :
             n \in Around(MaxParameters - 1) \cup Around(MaxParameters)}
    \cup {JsonFile(JsMap(<<Entry(CiBuildIdKey, Str(Repeat("v", MaxParameterValueLength + 1)))>>))}

LimitTagFileSamples ==
  {JsonFile(JsMap(<<Entry(<<"T">>, Str(Repeat("v", n)))>>)) : n \in Around(MaxTagValueLength)}
    \cup {JsonFile(JsMap(<<Entry(Repeat("k", n), Str(<<"x">>))>>)) :
             n \in Around(MaxTagNameLength)}
    \cup {JsonFile(JsMap(ManyEntries(n, Str(<<"x">>)))) :
             n \in Around(MaxTags - 6) \cup Around(MaxTags)}
    \cup {JsonFile(JsMap(<<Entry(GitCommit, Str(Repeat("v", MaxTagValueLength + 1)))>>))}

PresenceSamples(file) == {Missing, file}

\* the sampled worlds: the inputs vary over good files; each group of files varies
\* in both modes; maps at the limits come with and without an environment map
Worlds ==
  {World(f, c, e, GoodFiles, GoodGit, GoodRandoms, GoodGitHub, Now) :
     f \in FolderInputSamples, c \in CiBuildInputSamples, e \in EnvironmentInputSamples}
  \cup
  {World(JsUndefined, c, Str(Dev), [GoodFiles EXCEPT ![1] = d], g, r, GoodGitHub, Now) :
     c \in {Str(True), Str(False)}, d \in DescriptorSamples, g \in GitRunSamples,
     r \in RandomStreamSamples}
  \cup
  {World(JsUndefined, c, e, [GoodFiles EXCEPT ![2] = dp, ![3] = ep], GoodGit, r,
         GoodGitHub, Now) :
     c \in {Str(True), Str(False)}, e \in {Str(Dev), Str(<<"q","a">>)},
     dp \in DefaultParameterFileSamples, ep \in EnvironmentParameterFileSamples,
     r \in RandomStreamSamples}
  \cup
  {World(JsUndefined, c, e, [GoodFiles EXCEPT ![4] = dt, ![5] = et], GoodGit, GoodRandoms,
         h, Now) :
     c \in {Str(True), Str(False)}, e \in {Str(Dev), Str(<<"q","a">>)},
     dt \in DefaultTagFileSamples, et \in EnvironmentTagFileSamples, h \in GitHubSamples}
  \cup
  {World(JsUndefined, c, Str(Dev), [GoodFiles EXCEPT ![2] = dp, ![3] = ep], GoodGit,
         GoodRandoms, GoodGitHub, Now) :
     c \in {Str(True), Str(False)}, dp \in LimitParameterFileSamples,
     ep \in PresenceSamples(GoodFiles[3])}
  \cup
  {World(JsUndefined, c, Str(Dev), [GoodFiles EXCEPT ![4] = dt, ![5] = et], GoodGit,
         GoodRandoms, GoodGitHub, Now) :
     c \in {Str(True), Str(False)}, dt \in LimitTagFileSamples,
     et \in PresenceSamples(GoodFiles[5])}

Init ==
  /\ call = [op |-> "run"]
  /\ ret = <<>>
  /\ world \in Worlds
  /\ run = RunStart
  /\ outputs = <<>>
  /\ failure = NoFailure

Spec == Init /\ [][Next]_vars

(***************************************************************************)
(* Properties of run()                                                     *)
(***************************************************************************)
OutputNames == {outputs[i].name : i \in 1..Len(outputs)}

AllOutputNames == {"parameters", "stack-name", "template", "tags"}

\* run has returned, from the end of its try block or from its catch block
Ended == run.pc \in {"done", "failed"}

\* a statement of run is about to execute
Running ==
  \/ run.pc \in {"getInputs", "parseBooleanInput", "validateInputs",
                 "readCloudFormationConfig", "readDefaultParameters",
                 "readEnvironmentParameters", "readDefaultTags", "readEnvironmentTags",
                 "generateRandomId", "mergeParameters", "mergeTags", "generateStackName"}
  \/ run.pc = "setOutput" /\ Len(outputs) < 4

\* C2: in every run exactly one of two terminal outcomes is reached: either no
\* failure is reported and every output (parameters, stack-name, template, tags) is
\* set, or a failure is reported and no output at all is set.  No reachable state
\* has a reported failure together with any output set, and no run ends
\* successfully with only part of the outputs set.
C2_AllOrNothing ==
  /\ failure.t = "failed" => outputs = <<>>
  /\ Ended \/ Running
  /\ Ended =>
       \/ failure.t = "none" /\ OutputNames = AllOutputNames /\ Len(outputs) = 4
       \/ failure.t = "failed" /\ outputs = <<>>

\* a run that had formatted its parameters and tags failed on the stack name and
\* has ended without any output
C2_Witness ==
  /\ Ended
  /\ failure.t = "failed"
  /\ run.formattedParams # <<>>
  /\ run.formattedTags # <<>>
  /\ outputs = <<>>

\* the value of the output of a name that was set
OutputValue(name) == outputs[CHOOSE i \in 1..Len(outputs) : outputs[i].name = name].value

Succeeded == run.pc = "done"

BuildMode == run.isCiBuild = JsBoolean(TRUE)

DeploymentMode == run.isCiBuild = JsBoolean(FALSE)

\* C11: every successful run emits a correlation-id output (ci-build-id) together
\* with the parameters, stack-name, template and tags outputs: the empty string in
\* deployment mode and a string of 6 to 10 lowercase letters in build mode.
C11_CorrelationIdOutput ==
  Succeeded =>
    /\ AllOutputNames \cup {"ci-build-id"} \subseteq OutputNames
    /\ "ci-build-id" \in OutputNames =>
         /\ DeploymentMode => OutputValue("ci-build-id") = <<>>
         /\ BuildMode =>
              /\ Len(OutputValue("ci-build-id")) \in MinIdLength..MaxIdLength
              /\ lowercaseAlphabetRegex(OutputValue("ci-build-id"))

\* the name that generateStackName resolves in build mode from the loaded
\* descriptor and the branch that git reports
ResolvedBuildName ==
  ComposeName(Lookup(run.config.entries, Project).s,
              Lookup(run.config.entries, StackPrefix).s,
              sanitizeBranchName(getCurrentBranchName(world.git).value).value)

\* C12: in build mode the stack-name output of a successful run equals
\* {project}-{stack-prefix}-{sanitized-branch-name}.
C12_BuildStackNameOutput ==
  Succeeded /\ BuildMode => OutputValue("stack-name") = ResolvedBuildName

\* C13: in build mode the name emitted by a successful run is the resolved name
\* {project}-{stackPrefix}-{sanitizedBranch} followed by '-' and the complete
\* correlation id generated for that run (the same id that the CiBuildId parameter
\* carries), and this whole name has at most 128 characters.
C13_BuildNameWithCompleteId ==
  Succeeded /\ BuildMode =>
    /\ OutputValue("stack-name") = ResolvedBuildName \o <<Hyphen>> \o run.ciBuildId
    /\ Lookup(run.mergedParams.entries, CiBuildIdKey) = JsString(<<Hyphen>> \o run.ciBuildId)
    /\ Len(OutputValue("stack-name")) <= MaxStackNameLength

(***************************************************************************)
(* SpecFormat: formatForCloudFormation and formatTagsForCloudFormation     *)
(* applied, up to twice, to one sampled argument                           *)
(***************************************************************************)
ObjectJson == <<"{","\"","a","\"",":","1","}">>
ArrayJson == <<"[","1",",","t","r","u","e","]">>

FormatValueSamples ==
  ValueSamples \cup {JsNumber(42), JsBoolean(TRUE), JsObject(ObjectJson), JsArray(ArrayJson)}

FormatMapSamples ==
  UNION {{EntriesOf(S, f) : f \in [S -> FormatValueSamples]} :
         S \in {T \in SUBSET (1..Len(KeySamples)) : Cardinality(T) <= MaxMapEntries}}

FormatArgumentSamples ==
  {JsMap(m) : m \in FormatMapSamples} \cup {JsNull, JsArray(<<"[","]">>)}

InitFormat ==
  /\ call \in {[op |-> o, merged |-> m] :
               o \in {"formatForCloudFormation", "formatTagsForCloudFormation"},
               m \in FormatArgumentSamples}
  /\ ret = <<>>
  /\ Idle

FormatForCloudFormation ==
  /\ call.op = "formatForCloudFormation"
  /\ Len(ret) < 2
  /\ ret' = Append(ret, formatForCloudFormation(call.merged))
  /\ UNCHANGED <<call, world, run, outputs, failure>>

FormatTagsForCloudFormation ==
  /\ call.op = "formatTagsForCloudFormation"
  /\ Len(ret) < 2
  /\ ret' = Append(ret, formatTagsForCloudFormation(call.merged))
  /\ UNCHANGED <<call, world, run, outputs, failure>>

NextFormat == FormatForCloudFormation \/ FormatTagsForCloudFormation

SpecFormat == InitFormat /\ [][NextFormat]_vars

\* the string a value is expected to be rendered as: String(v) for the sampled
\* scalars, the JSON text for the sampled object and array
ExpectedRendering(v) ==
  CASE v = JsString(<<"x">>) -> <<"x">>
    [] v = JsString(<<>>) -> <<>>
    [] v = JsNumber(0) -> <<"0">>
    [] v = JsNumber(42) -> <<"4","2">>
    [] v = JsBoolean(FALSE) -> <<"f","a","l","s","e">>
    [] v = JsBoolean(TRUE) -> <<"t","r","u","e">>
    [] v = JsObject(ObjectJson) -> ObjectJson
    [] v = JsArray(ArrayJson) -> ArrayJson

\* a valid tag map: at most 50 entries, each key a non-blank string of at most 128
\* characters, each value present and at most 256 characters
ValidTagMap(v) ==
  /\ v.t = "map"
  /\ Len(v.entries) <= 50
  /\ \A i \in 1..Len(v.entries) :
       LET e == v.entries[i] IN
       /\ \E j \in 1..Len(e.k) : e.k[j] \notin WhiteSpace
       /\ Len(e.k) <= 128
       /\ e.v.t \notin {"null", "undefined"}
       /\ Len(StringValue(e.v)) <= 256

ValidMergedMap ==
  IF call.op = "formatForCloudFormation" THEN ValidParameterMap(call.merged)
  ELSE ValidTagMap(call.merged)

\* the name and the value of a record of either list
RecordName(r) == IF call.op = "formatForCloudFormation" THEN r.ParameterName ELSE r.Key
RecordValue(r) == IF call.op = "formatForCloudFormation" THEN r.ParameterValue ELSE r.Value
RecordFields == IF call.op = "formatForCloudFormation"
                THEN {"ParameterName", "ParameterValue"} ELSE {"Key", "Value"}

FormatsWell ==
  ret # <<>> /\ ValidMergedMap =>
    LET entries == call.merged.entries IN
    \A n \in 1..Len(ret) :
      /\ ret[n].ok
      /\ Len(ret[n].value) = Len(entries)
      /\ \A i \in 1..Len(entries) :
           /\ DOMAIN ret[n].value[i] = RecordFields
           /\ RecordName(ret[n].value[i]) = entries[i].k
           /\ RecordValue(ret[n].value[i]) = ExpectedRendering(entries[i].v)
      /\ ret[n] = ret[1]

\* C14: wire rendering is a pure 1:1 mapping: formatForCloudFormation (resp.
\* formatTagsForCloudFormation) applied to a valid merged map returns exactly one
\* record {ParameterName, ParameterValue} (resp. {Key, Value}) per entry, with the
\* name equal to the key and the value always a string, String(v) for scalars and
\* the JSON serialization for objects and arrays; an empty map gives an empty list;
\* applying it again to the same map gives the same records and the input map is
\* left unchanged.
C14_WireRendering == []FormatsWell /\ [][call' = call]_vars

\* the tags formatter was applied twice to a map with an object value and a falsy
\* scalar under a key that is no parameter name
C14_Witness ==
  /\ call.op = "formatTagsForCloudFormation"
  /\ Len(ret) = 2
  /\ ValidMergedMap
  /\ call.merged.entries = <<Entry(KeySamples[1], JsObject(ObjectJson)),
                              Entry(KeySamples[3], JsNumber(0))>>

(***************************************************************************)
(* Properties of run(): the emitted records                                *)
(***************************************************************************)
\* the limits of a parameter record and of a tag record
ParameterWithinLimits(name, value) ==
  /\ name # <<>> /\ Len(name) <= 255
  /\ name[1] \in Upper \cup Lower
  /\ \A j \in 1..Len(name) : name[j] \in Alnum
  /\ Len(value) <= 4096

TagWithinLimits(name, value) == Len(value) <= 256

\* every entry of a map that the run renders is within the limits of its kind
RenderedWithinLimits(m, kind) ==
  /\ kind = "parameters" => Len(m.entries) <= 200
  /\ \A i \in 1..Len(m.entries) :
       LET e == m.entries[i] IN
       e.v.t \notin {"null", "undefined"} =>
         IF kind = "parameters" THEN ParameterWithinLimits(e.k, StringValue(e.v))
         ELSE TagWithinLimits(e.k, StringValue(e.v))

\* every parameter of a loaded map is within the limits, but for the CiBuildId
\* parameter that a build-mode run replaces
LoadedWithinLimits(m) ==
  m.t = "map" =>
    /\ Len(m.entries) <= 200
    /\ \A i \in 1..Len(m.entries) :
         LET e == m.entries[i] IN
         ~(BuildMode /\ e.k = CiBuildIdKey) /\ e.v.t \notin {"null", "undefined"} =>
           ParameterWithinLimits(e.k, StringValue(e.v))

TagsLoaded ==
  run.pc \in {"generateRandomId", "mergeParameters", "mergeTags", "generateStackName",
              "setOutput", "done"}
    \/ run.failedAt \in {"generateRandomId", "mergeParameters", "mergeTags",
                          "generateStackName"}

\* the failures that reject the name of an entry
NameErrors ==
  {"InvalidParameterName", "ParameterNameTooLong", "InvalidParameterNameChars",
   "InvalidTagName", "TagNameTooLong"}

\* C16: tag keys are free-form: a tag map whose keys are arbitrary non-empty
\* strings of at most 128 characters (containing a hyphen, starting with a digit)
\* is accepted by the tag merge and by tag rendering, both when an environment tag
\* map is present and when it is absent; only parameter keys are restricted to
\* ^[A-Za-z][A-Za-z0-9]*$.
C16_FreeFormTagKeys ==
  /\ TagsLoaded
  /\ ValidTagMap(run.defaultTags)
  /\ run.envTags.t # "null" => ValidTagMap(run.envTags)
  => ~(run.failedAt = "mergeTags" /\ failure.error \in NameErrors)

RejectedForTooManyTags == run.pc = "failed" /\ failure.error = "TooManyTags"

\* the number of entries of the merged default and environment tag maps
LoadedTagCount ==
  Cardinality(Keys(run.defaultTags.entries)
                \cup (IF run.envTags.t = "map" THEN Keys(run.envTags.entries) ELSE {}))

\* C17 as stated: the tag-count limit is 50 entries of the merged
\* default+environment tag map: a run whose merged tag map has at most 50 valid
\* entries is not rejected for having too many tags, and one whose merged tag map
\* has more than 50 entries is rejected.
C17_LoadedTagCountLimit ==
  /\ TagsLoaded
  /\ ValidTagMap(run.defaultTags)
  /\ run.envTags.t # "null" => ValidTagMap(run.envTags)
  => /\ LoadedTagCount <= 50 => ~RejectedForTooManyTags
     /\ LoadedTagCount > 50 => run.pc # "done"

\* C17, amended: the tag-count limit is 50 entries of the tag map that the run
\* renders, which is the merged default+environment map with the six Git* tags
\* set: a run is rejected for having too many tags exactly when that map has more
\* than 50 entries.
C17_RenderedTagCountLimit ==
  /\ RejectedForTooManyTags =>
       run.failedAt = "mergeTags" /\ run.mergedTags.t = "map"
         /\ Len(run.mergedTags.entries) > 50
  /\ run.mergedTags.t = "map" /\ Len(run.mergedTags.entries) > 50 => RejectedForTooManyTags
  /\ run.mergedTags.t = "map" =>
       Len(run.mergedTags.entries) =
         Cardinality(Keys(run.mergedTags.entries))
       /\ Keys(run.mergedTags.entries) =
            Keys(run.defaultTags.entries)
              \cup (IF run.envTags.t = "map" THEN Keys(run.envTags.entries) ELSE {})
              \cup {GitCommit, GitLastModifiedBy, GitLastModifiedAt, GitFile, GitOrg, GitRepo}

\* a run whose merged default+environment tag map has 45 entries was rejected for
\* the 51 tags of the rendered map
C17_Witness ==
  /\ RejectedForTooManyTags
  /\ LoadedTagCount = 45
  /\ Len(run.mergedTags.entries) = 51

\* the failures on the mode flag, the folder path and the environment tag: those of
\* parseBooleanInput and validateInputs, and those of generateStackName on the
\* environment
InputErrors ==
  {"InvalidBoolean", "FolderEmpty", "FolderUnsafe", "FolderTooLong",
   "EnvironmentInputRequired", "EnvironmentInputTooLong", "EnvironmentInputInvalidChars",
   "EnvironmentRequired", "EnvironmentInvalidChars", "EnvironmentTooLong"}

\* C18: input validation errors precede all file I/O: whenever a run fails because
\* of a malformed mode flag, an unsafe or oversized folder path, or an environment
\* tag that is missing (deployment mode), too long or outside the charset the
\* resolver accepts (^[A-Za-z0-9-]+$, at most 50 characters), the failure is
\* reported before the first document read; no run reads a file and afterwards
\* fails on the environment tag's charset or length.
C18_ValidationBeforeReads ==
  run.pc = "failed" /\ failure.error \in InputErrors => run.reads = <<>>

(***************************************************************************)
(* SpecPair: run() twice in build mode over the same files, branch and     *)
(* random draws, the second time with another environment input.  ret      *)
(* keeps what the first run reported.                                      *)
(***************************************************************************)
BuildWorlds == {w \in Worlds : w.env.INPUT_CI_BUILD = Str(True)}

SecondEnvironmentSamples ==
  {JsUndefined, Str(Dev), Str(<<"q","a">>), Str(<<"d","@","v">>)}

InitPair ==
  /\ call = [op |-> "run"]
  /\ ret = <<>>
  /\ world \in BuildWorlds
  /\ run = RunStart
  /\ outputs = <<>>
  /\ failure = NoFailure

\* the action is invoked again with another environment input
RunAgain ==
  /\ Ended
  /\ ret = <<>>
  /\ \E e \in SecondEnvironmentSamples \ {world.env.INPUT_ENVIRONMENT} :
       world' = [world EXCEPT !.env.INPUT_ENVIRONMENT = e]
  /\ ret' = <<[outputs |-> outputs, failure |-> failure]>>
  /\ run' = RunStart
  /\ outputs' = <<>>
  /\ failure' = NoFailure
  /\ UNCHANGED call

NextPair == Next \/ RunAgain

SpecPair == InitPair /\ [][NextPair]_vars

\* the outputs of the given names among those set
OutputsNamed(set, names) == SelectSeq(set, LAMBDA o : o.name \in names)

\* C19: the environment input is ignored when ci-build is true: two build-mode
\* runs over the same files, the same branch and the same generated correlation id
\* that differ only in the environment input produce the same parameters, tags and
\* stack-name outputs and the same success/failure verdict.
C19_EnvironmentIgnoredInBuildMode ==
  Len(ret) = 1 /\ Ended =>
    /\ failure.t = ret[1].failure.t
    /\ OutputsNamed(outputs, {"parameters", "tags", "stack-name"})
         = OutputsNamed(ret[1].outputs, {"parameters", "tags", "stack-name"})

(***************************************************************************)
(* Properties of run(): the default parameter file                         *)
(***************************************************************************)
DefaultParametersFile == world.fs[Path("params", DefaultJson)]

HoldsParameterMap(file) == file.kind = "file" /\ file.json /\ file.value.t = "map"

\* the failure expected for a default parameter file that holds no JSON object
ExpectedDefaultProblem(file) ==
  CASE file.kind = "missing" -> "NotFound"
    [] file.kind = "directory" -> "NotAFile"
    [] file.kind = "denied" -> "PermissionDenied"
    [] file.kind = "file" /\ ~file.json /\ (\A i \in 1..Len(file.text) : file.text[i] \in WhiteSpace)
         -> "Empty"
    [] file.kind = "file" /\ ~file.json /\ (\E i \in 1..Len(file.text) : file.text[i] \notin WhiteSpace)
         -> "InvalidSyntax"
    [] file.kind = "file" /\ file.json -> "NotAnObject"

\* readDefaultParameters treats the file by the taxonomy NotFound / NotAFile /
\* Empty / InvalidSyntax / NotAnObject and returns any JSON object as it is
DefaultParametersTaxonomy ==
  /\ run.failedAt = "readDefaultParameters" =>
       /\ ~HoldsParameterMap(DefaultParametersFile)
       /\ failure.error = ExpectedDefaultProblem(DefaultParametersFile)
  /\ run.defaultParams.t # "undefined" =>
       /\ HoldsParameterMap(DefaultParametersFile)
       /\ run.defaultParams = DefaultParametersFile.value
  /\ Succeeded => run.defaultParams.t = "map"

EmptyDefaultAndNoOverride == run.defaultParams = JsMap(<<>>) /\ run.envParams = JsNull

\* C20 as stated: a missing params/default.json is fatal (NotFound) while an
\* existing one with content {} is valid and yields an empty parameter list:
\* readDefaultParameters applies the taxonomy NotFound / NotAFile / Empty /
\* InvalidSyntax / NotAnObject with no required-field check, and a run over an
\* empty default map and no environment file succeeds with parameters '[]'.
C20_EmptyDefaultGivesEmptyList ==
  /\ DefaultParametersTaxonomy
  /\ EmptyDefaultAndNoOverride =>
       /\ run.failedAt # "mergeParameters"
       /\ Succeeded => OutputValue("parameters") = <<"[","]">>

\* C20, amended: the same, with the parameters output '[]' in deployment mode; in
\* build mode the parameter list of such a run holds the CiBuildId parameter and
\* nothing else.
C20_EmptyDefaultByMode ==
  /\ DefaultParametersTaxonomy
  /\ EmptyDefaultAndNoOverride =>
       /\ run.failedAt # "mergeParameters"
       /\ Succeeded /\ DeploymentMode => OutputValue("parameters") = <<"[","]">>
       /\ Succeeded /\ BuildMode =>
            /\ run.formattedParams =
                 <<[ParameterName |-> CiBuildIdKey,
                    ParameterValue |-> <<Hyphen>> \o run.ciBuildId]>>
            /\ OutputValue("parameters") # <<"[","]">>

\* a deployment-mode run over the default map {} and no environment file succeeded
\* with the parameters output '[]'
C20_Witness ==
  /\ Succeeded /\ DeploymentMode
  /\ EmptyDefaultAndNoOverride
  /\ DefaultParametersFile = JsonFile(JsMap(<<>>))
  /\ OutputValue("parameters") = <<"[","]">>

(***************************************************************************)
(* Properties of run(): the default tag file                               *)
(***************************************************************************)
DefaultTagsFile == world.fs[Path("tags", DefaultJson)]

Ref(n) == [t |-> "ref", at |-> n]

\* the value a reference or a primitive stands for
Deref(objects, v) == IF v.t = "ref" THEN JsMap(objects[v.at]) ELSE v

MergeParametersAliasing(objects, defaultParams, envParams) ==
  LET merged == mergeParameters(Deref(objects, defaultParams), Deref(objects, envParams)) IN
  IF ~merged.ok THEN [ok |-> FALSE, error |-> merged.error, objects |-> objects]
  ELSE IF envParams.t \in {"null", "undefined"}
  THEN [ok |-> TRUE, ref |-> defaultParams, objects |-> objects]
  ELSE [ok |-> TRUE, ref |-> Ref(Len(objects) + 1),
        objects |-> Append(objects, merged.value.entries)]

\* mergeParameters on references: both object literals, { ...defaultParams } and
\* { ...defaultParams, ...envParams }, create an object
MergeParametersInHeap(objects, defaultParams, envParams) ==
  LET merged == mergeParameters(Deref(objects, defaultParams), Deref(objects, envParams)) IN
  IF ~merged.ok THEN [ok |-> FALSE, error |-> merged.error, objects |-> objects]
  ELSE [ok |-> TRUE, ref |-> Ref(Len(objects) + 1),
        objects |-> Append(objects, merged.value.entries)]

BaseSamples == MapSamples \cup {<<Entry(CiBuildIdKey, JsString(<<"x">>))>>,
                                <<Entry(GitCommit, JsString(<<"x">>))>>}

OverrideSamples == {m \in MapSamples : Len(m) <= 1}

Id == <<"a","b","c","d","e","f">>

GitHubEnv ==
  [GITHUB_SHA |-> GoodGitHub[1], GITHUB_ACTOR |-> GoodGitHub[2],
   GITHUB_WORKFLOW |-> GoodGitHub[3], GITHUB_REPOSITORY |-> GoodGitHub[4]]

\* the base is the object at 1, the override the object at 2, null or undefined
InitHeap ==
  /\ \E base \in BaseSamples, override \in OverrideSamples :
       /\ world = [t |-> "heap", objects |-> <<base, override>>]
       /\ \E envParams \in {Ref(2), JsNull, JsUndefined} :
            call = [op |-> "mergeParameters", defaultParams |-> Ref(1),
                    envParams |-> envParams, base |-> base, override |-> override]
  /\ ret = <<>>
  /\ run = [pc |-> "mergeParameters"]
  /\ outputs = <<>>
  /\ failure = NoFailure

MergeInHeap ==
  /\ call.op = "mergeParameters"
  /\ run.pc = "mergeParameters"
  /\ LET r == MergeParametersInHeap(world.objects, call.defaultParams, call.envParams) IN
     /\ world' = [world EXCEPT !.objects = r.objects]
     /\ ret' = <<r>>
     /\ run' = [pc |-> IF r.ok THEN "merged" ELSE "failed"]
  /\ UNCHANGED <<call, outputs, failure>>

\* mergedParams.CiBuildId = `-${ciBuildId}`
SetCiBuildIdOnResult ==
  /\ run.pc = "merged"
  /\ world' = [world EXCEPT !.objects[ret[1].ref.at] =
                 AddCiBuildId(JsMap(@), JsBoolean(TRUE), Id).entries]
  /\ run' = [pc |-> "added"]
  /\ UNCHANGED <<call, ret, outputs, failure>>

\* mergedTags.GitCommit = ... and the five other tags
SetGitHubTagsOnResult ==
  /\ run.pc = "merged"
  /\ world' = [world EXCEPT !.objects[ret[1].ref.at] =
                 AddGitHubTags(JsMap(@), GitHubEnv, Now).entries]
  /\ run' = [pc |-> "added"]
  /\ UNCHANGED <<call, ret, outputs, failure>>

NextHeap == MergeInHeap \/ SetCiBuildIdOnResult \/ SetGitHubTagsOnResult

SpecHeap == InitHeap /\ [][NextHeap]_vars

OverrideAbsent == call.envParams.t \in {"null", "undefined"}

\* C22: mergeParameters never mutates either argument, and when the override is
\* absent (null or undefined) it returns a new map that is value-equal to base but
\* is not the same object, so that later additions to the result (the CiBuildId
\* parameter, the provenance tags) leave the loaded base map unchanged.
C22_MergeLeavesArgumentsAlone ==
  \* the two argument objects are what they were, before and after the additions
  /\ world.objects[1] = call.base
  /\ world.objects[2] = call.override
  /\ run.pc \in {"merged", "added"} =>
       /\ ret[1].ref.at \notin {1, 2}
       /\ ret[1].ref.at \in 1..Len(world.objects)
  /\ run.pc = "merged" /\ OverrideAbsent => world.objects[ret[1].ref.at] = call.base

\* with the override absent, CiBuildId was set on the result, which now differs
\* from the base
C22_Witness ==
  /\ run.pc = "added"
  /\ OverrideAbsent
  /\ CiBuildIdKey \in Keys(world.objects[ret[1].ref.at])
  /\ CiBuildIdKey \notin Keys(world.objects[1])
  /\ call.base # <<>>

(***************************************************************************)
(* Properties of mergeParameters: validation                               *)
(***************************************************************************)
\* C23: merge validates its inputs before producing a result, for every override
\* including the absent one: a base map that contains a null value, a key not
\* matching ^[A-Za-z][A-Za-z0-9]*$, a key longer than 255 characters or more than
\* 200 keys makes mergeParameters fail and return no merged map, whether the
\* override is a map or absent.
C23_MergeValidatesEveryBase ==
  /\ MergeCalled
  /\ call.defaultParams.t = "map"
  /\ ~ValidParameterMap(call.defaultParams)
  /\ call.envParams.t \in {"map", "null", "undefined"}
  => ~ret[1].ok

(***************************************************************************)
(* SpecOrder: run() as it is, and then run() over the same world with its  *)
(* five reads issued in any order.  ret keeps what the first run reported, *)
(* call.pending the reads the second run has not done yet.                 *)
(***************************************************************************)
Documents == {"config", "defaultParams", "envParams", "defaultTags", "envTags"}

ReadDocumentAfterConfig(document) ==
  IF document # "config" /\ run.config.t = "undefined"
  THEN Accessing(Err("FolderPathInvalid"), {})
  ELSE CASE document = "config" -> readCloudFormationConfig(run.folder, world.fs)
         [] document = "defaultParams" -> readDefaultParameters(run.folder, world.fs)
         [] document = "envParams" ->
              readEnvironmentParameters(run.folder, run.environment, world.fs)
         [] document = "defaultTags" -> readDefaultTags(run.folder, world.fs)
         [] document = "envTags" -> readEnvironmentTags(run.folder, run.environment, world.fs)

\* the reader call of run that assigns the local of this name
ReadDocument(document) ==
  CASE document = "config" -> readCloudFormationConfig(run.folder, world.fs)
    [] document = "defaultParams" -> readDefaultParameters(run.folder, world.fs)
    [] document = "envParams" ->
         readEnvironmentParameters(run.folder, run.environment, world.fs)
    [] document = "defaultTags" -> readDefaultTags(run.folder, world.fs)
    [] document = "envTags" -> readEnvironmentTags(run.folder, run.environment, world.fs)

\* file systems in which any of the five files can be missing or broken, alone or
\* together with others
OrderFileSamples ==
  {<<d, dp, ep, dt, et>> :
     d \in {GoodFiles[1], Missing},
     dp \in {GoodFiles[2], TextFile(<<"{">>)},
     ep \in {GoodFiles[3], Missing, Directory},
     dt \in {GoodFiles[4], Missing, JsonFile(JsNull)},
     et \in {GoodFiles[5], Missing, Denied}}

OrderWorlds ==
  {World(JsUndefined, c, Str(Dev), files, GoodGit, GoodRandoms, GoodGitHub, Now) :
     c \in {Str(True), Str(False)}, files \in OrderFileSamples}

InitOrder ==
  /\ call = [op |-> "run", pending |-> {}]
  /\ ret = <<>>
  /\ world \in OrderWorlds
  /\ run = RunStart
  /\ outputs = <<>>
  /\ failure = NoFailure

\* the second invocation, over the same world
RunReordered ==
  /\ Ended
  /\ ret = <<>>
  /\ ret' = <<[outputs |-> outputs, failure |-> failure]>>
  /\ call' = [call EXCEPT !.pending = Documents]
  /\ run' = RunStart
  /\ outputs' = <<>>
  /\ failure' = NoFailure
  /\ UNCHANGED world

\* one of the reads not yet done; the first that throws ends the run, the last one
\* done hands over to the statements after the reads
ReadInAnyOrder ==
  /\ ret # <<>>
  /\ run.pc = "readCloudFormationConfig"
  /\ \E document \in call.pending :
       LET r == ReadDocument(document) IN
       IF r.ok
       THEN /\ run' = [run EXCEPT ![document] = r.value,
                                  !.reads = @ \o Stats(r),
                                  !.pc = IF call.pending = {document}
                                         THEN "generateRandomId" ELSE @]
            /\ call' = [call EXCEPT !.pending = @ \ {document}]
            /\ UNCHANGED failure
       ELSE /\ run' = [run EXCEPT !.pc = "failed", !.failedAt = document,
                                  !.reads = @ \o Stats(r)]
            /\ failure' = setFailed(r.error)
            /\ UNCHANGED call
  /\ UNCHANGED <<ret, world, outputs>>

InOrder == LoadConfig \/ LoadDefaultParams \/ LoadEnvParams \/ LoadDefaultTags \/ LoadEnvTags

NextOrder ==
  \/ GetInputs
  \/ ParseBooleanInput
  \/ ValidateInputs
  \/ ret = <<>> /\ InOrder
  \/ ReadInAnyOrder
  \/ MakeCiBuildId
  \/ MergeAndFormatParams
  \/ MergeAndFormatTags
  \/ MakeStackName
  \/ SetOutput
  \/ RunReordered

SpecOrder == InitOrder /\ [][NextOrder]_vars

\* C24: the five document reads (root descriptor, default parameters, environment
\* parameters, default tags, environment tags) are independent: for every fixed
\* file-system content, every order or interleaving of the five reads leads to the
\* same verdict (success or failure) and, on success, to the same parameters,
\* tags, template and stack-name outputs.
C24_ReadsIndependent ==
  Len(ret) = 1 /\ Ended =>
    /\ failure.t = ret[1].failure.t
    /\ outputs = ret[1].outputs
    /\ failure.t = "none" =>
         {outputs[i].name : i \in 1..Len(outputs)}
           = {"parameters", "tags", "template", "stack-name"}

\* the reordered run read the environment tags first and the descriptor last, and
\* succeeded as the run in program order had
C24_Witness ==
  /\ Len(ret) = 1
  /\ Succeeded
  /\ ret[1].failure.t = "none"
  /\ Len(run.reads) = 5
  /\ run.reads[1] = Path("tags", Dev)
  /\ run.reads[5] = Path("", CloudFormationJson)

(***************************************************************************)
(* The branch lookup within a run                                          *)
(***************************************************************************)
\* the run asked git for the branch and the lookup threw
LookupFailed == run.lookups = 1 /\ ~getCurrentBranchName(world.git).ok

\* C25: there are no retries.  In every run the branch lookup is invoked at most
\* once and never in deployment mode, and a failed lookup (a timeout included) is
\* terminal: the run has failed with the lookup's diagnostic and no output, and no
\* step follows a failure, so no further lookup or read happens.
C25_NoRetries ==
  /\ [](/\ run.lookups \in {0, 1}
        /\ DeploymentMode => run.lookups = 0
        /\ LookupFailed =>
             /\ run.pc = "failed"
             /\ run.failedAt = "generateStackName"
             /\ failure = setFailed(getCurrentBranchName(world.git).error)
             /\ outputs = <<>>)
  /\ [][/\ run.pc # "failed"
         /\ run.lookups = 1 => run'.lookups = 1 /\ run'.reads = run.reads]_vars

C25_Witness ==
  /\ BuildMode
  /\ LookupFailed
  /\ world.git.t = "throw"
  /\ ClassifyGitError(world.git) = "GitTimedOut"
  /\ run.pc = "failed"
  /\ Len(run.reads) = 5

(***************************************************************************)
(* The classes of a failed branch lookup                                   *)
(***************************************************************************)
\* the class of a thrown lookup error by the first matching rule
LookupClass(e) ==
  IF e.code = "ENOENT" THEN "not installed"
  ELSE IF e.signal = "SIGTERM" \/ e.killed THEN "timed out"
  ELSE IF e.status = 128 THEN "not a repository"
  ELSE IF e.status = 129 THEN "too old"
  ELSE "generic"

ClassOfKind(kind) ==
  IF kind = "GitNotFound" THEN "not installed"
  ELSE IF kind = "GitTimedOut" THEN "timed out"
  ELSE IF kind = "NotAGitRepository" THEN "not a repository"
  ELSE IF kind = "GitTooOld" THEN "too old"
  ELSE "generic"

\* a build-mode call with accepted project and stackPrefix whose lookup threw
LookupThrew ==
  /\ NameCalled
  /\ call.isCiBuild = JsBoolean(TRUE)
  /\ ValidComponent(call.project) /\ ValidComponent(call.stackPrefix)
  /\ call.git.t = "throw"

\* C26: getCurrentBranchName classifies a failed lookup by the first matching rule
\* in the order ENOENT (not installed), SIGTERM or killed (timed out), status 128
\* (not a repository), status 129 (too old), otherwise generic, whose diagnostic
\* carries the underlying message; lookups of different classes have different
\* diagnostics, and in every class generateStackName fails with a
\* BranchResolutionFailed error and returns no name.
C26_LookupFailureClasses ==
  LookupThrew =>
    /\ ~ret[1].ok
    /\ ret[1] = getCurrentBranchName(call.git)
    /\ ret[1].error \in BranchResolutionFailed
    /\ ClassOfKind(ret[1].error) = LookupClass(call.git)
    /\ LookupClass(call.git) = "generic"
         => \E i \in 1..Len(GitDiagnostic(call.git)) :
               GitDiagnostic(call.git)[i] = call.git.message
    /\ \A e \in GitErrorSamples :
         LookupClass(e) # LookupClass(call.git) => GitDiagnostic(e) # GitDiagnostic(call.git)
    /\ \A e \in GitErrorSamples :
         LookupClass(e) = LookupClass(call.git) /\ LookupClass(e) # "generic"
           => GitDiagnostic(e) = GitDiagnostic(call.git)

\* git was missing and the error also carried a timeout and status 129: rule one won
C26_Witness ==
  /\ LookupThrew
  /\ call.git.code = "ENOENT" /\ call.git.killed /\ call.git.status = 129
  /\ ret[1] = Err("GitNotFound")

(***************************************************************************)
(* The form of the stack-name output                                       *)
(***************************************************************************)
\* C27: the stack-name output of every successful run, in both modes and also after
\* run has appended the correlation id, has between 1 and 128 characters and
\* matches ^[A-Za-z0-9-]+$.
C27_StackNameForm ==
  Succeeded =>
    /\ BuildMode \/ DeploymentMode
    /\ Len(OutputValue("stack-name")) \in 1..128
    /\ \A i \in 1..Len(OutputValue("stack-name")) :
         OutputValue("stack-name")[i] \in Lower \cup Upper \cup Digit \cup {Hyphen}

\* a build-mode run whose name with the id appended was cut to 128 characters
C27_Witness ==
  /\ Succeeded
  /\ BuildMode
  /\ Len(ResolvedBuildName) + 1 + Len(run.ciBuildId) > 128
  /\ Len(OutputValue("stack-name")) = 128

(***************************************************************************)
(* The correlation id and the CiBuildId parameter                          *)
(***************************************************************************)
\* run has executed the statement that makes the correlation id
PastIdGeneration ==
  run.pc \in {"mergeParameters", "mergeTags", "generateStackName", "setOutput", "done"}
    \/ (run.pc = "failed"
          /\ run.failedAt \in {"generateRandomId", "mergeParameters", "mergeTags",
                                "generateStackName"})

\* the keys of the loaded default and environment parameter maps
LoadedParameterKeys ==
  Keys(run.defaultParams.entries)
    \cup (IF run.envParams.t = "map" THEN Keys(run.envParams.entries) ELSE {})

\* the value the loaded maps give a key: the environment map's when it has the key
LoadedParameterValue(k) ==
  IF run.envParams.t = "map" /\ k \in Keys(run.envParams.entries)
  THEN Lookup(run.envParams.entries, k)
  ELSE Lookup(run.defaultParams.entries, k)

CiBuildIdRecords ==
  {i \in 1..Len(run.formattedParams) : run.formattedParams[i].ParameterName = CiBuildIdKey}

\* C28: the correlation id is generated exactly once per run in build mode (once
\* the run has come to that statement; a run that ended before it generated none)
\* and never in deployment mode.  In build mode the parameter list of a successful run
\* has exactly one record named CiBuildId, whose value is '-' followed by that id,
\* whatever the default or environment map defines for CiBuildId; in deployment
\* mode run injects no parameter: the records are those of the keys of the merged
\* default and environment maps, with their values.
C28_CorrelationIdParameter ==
  /\ run.ids \in {0, 1}
  /\ DeploymentMode => run.ids = 0 /\ run.ciBuildId = <<>>
  /\ BuildMode /\ PastIdGeneration => run.ids = 1
  /\ ~PastIdGeneration => run.ids = 0
  /\ Succeeded /\ BuildMode =>
       /\ Cardinality(CiBuildIdRecords) = 1
       /\ \A i \in CiBuildIdRecords :
            run.formattedParams[i].ParameterValue = <<Hyphen>> \o run.ciBuildId
       /\ validateIdFormat(run.ciBuildId)
       /\ {run.formattedParams[i].ParameterName : i \in 1..Len(run.formattedParams)}
            = LoadedParameterKeys \cup {CiBuildIdKey}
  /\ Succeeded /\ DeploymentMode =>
       /\ Len(run.formattedParams) = Cardinality(LoadedParameterKeys)
       /\ \A i \in 1..Len(run.formattedParams) :
            /\ run.formattedParams[i].ParameterName \in LoadedParameterKeys
            /\ run.formattedParams[i].ParameterValue =
                 StringValue(LoadedParameterValue(run.formattedParams[i].ParameterName))

\* a build-mode run over a default map that defines CiBuildId succeeded with the
\* generated id in the one CiBuildId record
C28_Witness ==
  /\ Succeeded /\ BuildMode
  /\ CiBuildIdKey \in Keys(run.defaultParams.entries)
  /\ Cardinality(CiBuildIdRecords) = 1
  /\ Lookup(run.defaultParams.entries, CiBuildIdKey) # JsString(<<Hyphen>> \o run.ciBuildId)

(***************************************************************************)
(* The provenance tags                                                     *)
(***************************************************************************)
ProvenanceKeys == {GitCommit, GitLastModifiedBy, GitLastModifiedAt, GitFile, GitOrg, GitRepo}

\* an environment datum, or 'unknown' when it is undefined or empty
Datum(v) == IF v.t = "undefined" THEN Unknown ELSE IF v.s = <<>> THEN Unknown ELSE v.s

\* the part of s before its first '/', and the part between the first and the second
BeforeSlash(s) ==
  IF \E i \in 1..Len(s) : s[i] = "/"
  THEN SubSeq(s, 1, (CHOOSE i \in 1..Len(s) : s[i] = "/" /\ \A j \in 1..(i - 1) : s[j] # "/") - 1)
  ELSE s

AfterSlash(s) ==
  IF \E i \in 1..Len(s) : s[i] = "/"
  THEN BeforeSlash(SubSeq(s, Len(BeforeSlash(s)) + 2, Len(s)))
  ELSE <<>>

\* the value run gives a provenance key
ProvenanceValue(k) ==
  IF k = GitCommit
  THEN SubSeq(Datum(world.env.GITHUB_SHA), 1,
              IF Len(Datum(world.env.GITHUB_SHA)) < 8 THEN Len(Datum(world.env.GITHUB_SHA)) ELSE 8)
  ELSE IF k = GitLastModifiedBy THEN Datum(world.env.GITHUB_ACTOR)
  ELSE IF k = GitLastModifiedAt THEN world.now
  ELSE IF k = GitFile THEN Datum(world.env.GITHUB_WORKFLOW)
  ELSE IF k = GitOrg THEN Datum(JsString(BeforeSlash(Datum(world.env.GITHUB_REPOSITORY))))
  ELSE Datum(JsString(AfterSlash(Datum(world.env.GITHUB_REPOSITORY))))

TagRecords(k) == {i \in 1..Len(run.formattedTags) : run.formattedTags[i].Key = k}

\* C29: the tag list of every successful run has exactly one record for each of
\* GitCommit, GitLastModifiedBy, GitLastModifiedAt, GitFile, GitOrg and GitRepo,
\* with the value run computed ('unknown' when the environment datum is absent),
\* also when the default or environment tag map defines the key, and the whole
\* list has at most 50 records.
C29_ProvenanceTags ==
  Succeeded =>
    /\ \A k \in ProvenanceKeys :
         /\ Cardinality(TagRecords(k)) = 1
         /\ \A i \in TagRecords(k) : run.formattedTags[i].Value = ProvenanceValue(k)
    /\ Len(run.formattedTags) <= 50
    /\ OutputValue("tags") = StringifyTags(run.formattedTags)

\* a run whose default tag map defines GitCommit, without GITHUB_SHA in the
\* environment, succeeded with GitCommit = 'unknown'
C29_Witness ==
  /\ Succeeded
  /\ GitCommit \in Keys(run.defaultTags.entries)
  /\ world.env.GITHUB_SHA = JsUndefined
  /\ \E i \in TagRecords(GitCommit) : run.formattedTags[i].Value = Unknown

(***************************************************************************)
(* The self-check of generateRandomId                                      *)
(***************************************************************************)
\* C30: the self-check of generateRandomId never fails on its own output: for every
\* length n in 6..10 (8 when omitted) and every sequence of random draws the string
\* built by the loop satisfies validateIdFormat, so no call ends with the
\* 'Generated ID failed validation' error.
C30_SelfCheckNeverFails ==
  IdCalled =>
    /\ ~ret[1].ok => ret[1].error # "GeneratedIdFailedValidation"
    /\ ret[1].ok => validateIdFormat(ret[1].value)
    /\ call.length.t = "undefined" \/ LengthInRange(call.length) =>
         /\ ret[1].ok
         /\ validateIdFormat(BuildId(DrawsFor(call.length), call.randoms))
         /\ \A i \in 1..DrawsFor(call.length) : RandomIndex(call.randoms[i]) \in 0..25

\* a call with n = 6 whose draws were the smallest and the largest value returned
\* an id of a's and z's that passes validateIdFormat
C30_Witness ==
  /\ IdCalled
  /\ call.length = JsNumber(6)
  /\ \E i, j \in 1..6 : call.randoms[i].num = 0 /\ call.randoms[j].num = 999999
  /\ ret[1].ok
  /\ validateIdFormat(ret[1].value)

====
